---- MODULE Spec2Model ----
(***************************************************************************)
(* WaveQL: the cursor's execution engine (pushdown, fallback, virtual      *)
(* join, mutation, direct), the query planner's predicate extraction and   *)
(* the adapters' mutation and fetch paths, as state machines.              *)
(*                                                                         *)
(* Spec         one cursor (blocking or cooperative) on one connection     *)
(* SpecSelect   the cursor serving SELECTs over a catalogue of WHERE trees *)
(* SpecAdapter  the adapters' insert / update / delete / fetch requests    *)
(* SpecLimit    the adapters' fetch under LIMIT against a paging server    *)
(***************************************************************************)
EXTENDS Integers, Sequences, FiniteSets, TLC

VARIABLES
    \* ---- the cursor and its connection (cursor.py, async_cursor.py)
    mode,           \* "sync": WaveQLCursor, "async": AsyncWaveQLCursor
    defaultAdapter, \* the adapter registered as "default", or "none"
    closed,         \* cursor._closed
    result,         \* cursor._result: [none |-> BOOLEAN, rows |-> batch]
    rowcount,       \* cursor._rowcount
    resultIndex,    \* cursor._result_index
    registered,     \* names registered in connection._duckdb
    last,           \* the last cursor method called, what it handed back
                    \* and the rows handed out since the last batch arrived
    \* ---- what the last execute call did (observation only)
    stmt,           \* the statement of the last execute
    outcome,        \* "fresh", "returned", or the kind of the error raised
    origin,         \* where a raised error was first raised
    raisedKind,     \* its kind where it was first raised
    calls,          \* the adapter methods the call invoked, in order
    tempRegs,       \* the names the call registered in the local engine
    reported,       \* the count the adapter's mutation method returned
    \* ---- one adapter request (servicenow.py, jira.py, file_adapter.py)
    areq,           \* the last adapter call and the native request it built
    \* ---- one fetch under LIMIT
    lim,            \* the last fetch: its arguments and the rows returned
    \* ---- one statement in the planner (query_planner.py)
    plan,           \* the SQL handed to parse and the QueryInfo it returns
    \* ---- the schema cache and the fetches that use it (base.py)
    sch,            \* the cached schemas and the last fetch's columns
    \* ---- one page request under rate limiting (servicenow.py)
    rl,             \* the responses still to come and the requests sent
    \* ---- callers that run execute at the same time (threads, tasks)
    run,            \* each caller's position in execute, and the cursors
    \* ---- the connection the cursor was obtained from
    connectionClosed \* WaveQLConnection._closed

cursorVars == <<mode, defaultAdapter, closed, result, rowcount, resultIndex,
                registered, last>>
obsVars    == <<stmt, outcome, origin, raisedKind, calls, tempRegs, reported>>
vars       == <<mode, defaultAdapter, closed, result, rowcount, resultIndex,
                registered, stmt, outcome, origin, raisedKind, calls,
                tempRegs, reported, areq, lim, plan, sch, rl, last, run,
                connectionClosed>>

(***************************************************************************)
(* Bounds                                                                  *)
(***************************************************************************)
\* the largest column value a WHERE leaf compares with
MaxVal == 2
\* the number of join clauses of a SELECT
MaxJoins == 2

(***************************************************************************)
(* Sequences                                                               *)
(***************************************************************************)
RECURSIVE SeqFilter(_, _)
\* the elements of s at the positions in keep, in order
SeqFilter(s, keep) ==
    IF s = <<>> THEN <<>>
    ELSE LET rest == SeqFilter(Tail(s), {i - 1 : i \in keep \ {1}})
         IN IF 1 \in keep THEN <<Head(s)>> \o rest ELSE rest

Min2(a, b) == IF a < b THEN a ELSE b

(***************************************************************************)
(* Error kinds (exceptions.py) and the built-in NotImplementedError, which *)
(* the adapters raise as the pushdown-unsupported signal.  EngineError is  *)
(* an exception of the local analytical engine (duckdb), no WaveQLError.   *)
(***************************************************************************)
NotImpl == "NotImplementedError"
EngineError == "duckdb.Error"
AdapterFaults == {"RateLimitError", "AdapterError"}

(***************************************************************************)
(* Tables and the connection's adapters                                    *)
(***************************************************************************)
NoTable    == [schema |-> "", name |-> ""]
T_incident == [schema |-> "", name |-> "incident"]
T_issue    == [schema |-> "jira", name |-> "issue"]
T_data     == [schema |-> "file", name |-> "data"]
T_custom   == [schema |-> "fallback", name |-> "Table"]
Tables     == {T_incident, T_issue, T_data, T_custom}

\* connection._adapters: adapter kinds by registered name
Adapters(def) ==
    [s \in {"default", "jira", "file", "fallback"} |->
        CASE s = "default"  -> def
          [] s = "jira"     -> "jira"
          [] s = "file"     -> "file"
          [] s = "fallback" -> "custom"]

GetAdapter(def, name) ==
    IF name \in DOMAIN Adapters(def) THEN Adapters(def)[name] ELSE "none"

\* WaveQLCursor._resolve_adapter
ResolveAdapter(def, table) ==
    IF table.name = "" THEN "none"
    ELSE IF table.schema # "" /\ GetAdapter(def, table.schema) # "none"
         THEN GetAdapter(def, table.schema)
         ELSE GetAdapter(def, "default")

\* the rows the remote source holds for a table: <<a, b>> tuples
RemoteRows(table) ==
    IF table \in Tables THEN << <<1, 1>>, <<1, 2>>, <<2, 2>> >> ELSE <<>>

(***************************************************************************)
(* WHERE condition trees, in prefix order: a node is a token, an inner     *)
(* node is followed by its left and then its right subtree.                *)
(***************************************************************************)
Leaf(c, o, v) == << [k |-> "leaf", col |-> c, op |-> o, val |-> v] >>
AndT(l, r)    == << [k |-> "and", col |-> 0, op |-> "", val |-> 0] >> \o l \o r
OrT(l, r)     == << [k |-> "or", col |-> 0, op |-> "", val |-> 0] >> \o l \o r
\* ( t ): exp.Paren, a node with one subtree
ParenT(t)     == << [k |-> "paren", col |-> 0, op |-> "", val |-> 0] >> \o t
NoWhere       == <<>>

RECURSIVE SubtreeLen(_, _)
\* the number of tokens of the subtree that starts at position i
SubtreeLen(t, i) ==
    IF t[i].k = "leaf" THEN 1
    ELSE IF t[i].k = "paren" THEN 1 + SubtreeLen(t, i + 1)
    ELSE LET l == SubtreeLen(t, i + 1)
         IN 1 + l + SubtreeLen(t, i + 1 + l)

RECURSIVE ParseConditionAt(_, _)
\* QueryPlanner._parse_condition on the subtree at position i
ParseConditionAt(t, i) ==
    IF t[i].k = "and"
    THEN ParseConditionAt(t, i + 1)
         \o ParseConditionAt(t, i + 1 + SubtreeLen(t, i + 1))
    ELSE IF t[i].k = "leaf"
    THEN << [column |-> t[i].col, operator |-> t[i].op, value |-> t[i].val] >>
    ELSE <<>>

\* QueryPlanner._parse_select, step 4: info.predicates
ParseCondition(where) ==
    IF where = NoWhere THEN <<>> ELSE ParseConditionAt(where, 1)

ContainsOr(where) == \E i \in 1..Len(where) : where[i].k = "or"

(***************************************************************************)
(* Evaluation of conditions: by the remote source (pushed-down predicates) *)
(* and by the local analytical engine (the statement's WHERE clause).      *)
(***************************************************************************)
Compare(x, o, v) ==
    CASE o = "="  -> x = v
      [] o = "!=" -> x # v
      [] o = "<"  -> x < v
      [] o = ">"  -> x > v
      [] OTHER    -> FALSE

RECURSIVE EvalAt(_, _, _)
EvalAt(t, i, row) ==
    IF t[i].k = "leaf" THEN Compare(row[t[i].col], t[i].op, t[i].val)
    ELSE IF t[i].k = "paren" THEN EvalAt(t, i + 1, row)
    ELSE LET l == EvalAt(t, i + 1, row)
             r == EvalAt(t, i + 1 + SubtreeLen(t, i + 1), row)
         IN IF t[i].k = "and" THEN l /\ r ELSE l \/ r

EvalWhere(where, row) == where = NoWhere \/ EvalAt(where, 1, row)

\* the conjunction of a predicate list, as the remote source applies it
Satisfies(row, predicates) ==
    \A i \in 1..Len(predicates) :
        Compare(row[predicates[i].column], predicates[i].operator,
                predicates[i].value)

FilterRows(rows, predicates) ==
    SeqFilter(rows, {i \in 1..Len(rows) : Satisfies(rows[i], predicates)})

(***************************************************************************)
(* Statements, as the planner hands them to the cursor (QueryInfo)         *)
(***************************************************************************)
Vals == 1..MaxVal

WhereTrees ==
    {NoWhere}
    \cup {Leaf(c, "=", v) : c \in {1, 2}, v \in Vals}
    \cup {AndT(Leaf(1, "=", v), Leaf(2, "=", w)) : v \in Vals, w \in Vals}
    \cup {OrT(Leaf(1, "=", v), Leaf(2, "=", w)) : v \in Vals, w \in Vals}
    \cup {AndT(Leaf(1, "=", v),
               ParenT(OrT(Leaf(2, "=", w), Leaf(1, "=", w)))) :
            v \in Vals, w \in Vals}
    \cup {OrT(AndT(Leaf(1, "=", v), Leaf(2, "=", w)), Leaf(2, "=", v)) :
            v \in Vals, w \in Vals}

Statement(o, t, js, w, a) ==
    [op |-> o, table |-> t, joins |-> js, where |-> w, agg |-> a]

\* SELECT ... FROM t [WHERE w], with or without COUNT(*) in the projection
SelectStmts ==
    {Statement("SELECT", t, <<>>, w, a) :
        t \in Tables, w \in WhereTrees, a \in BOOLEAN}

\* the SELECTs of a workload that also mutates and joins
BasicWheres == {NoWhere, OrT(Leaf(1, "=", 1), Leaf(2, "=", 1))}
BasicSelects == {st \in SelectStmts : st.where \in BasicWheres}

\* SELECT ... FROM incident JOIN jira.issue [JOIN file.data] ...
JoinChain == <<T_issue, T_data, T_custom>>
JoinLists ==
    {SubSeq(JoinChain, 1, n) : n \in 1..Min2(MaxJoins, Len(JoinChain))}
JoinStmts ==
    {Statement("SELECT", T_incident, js, NoWhere, FALSE) : js \in JoinLists}

MutationOps == {"INSERT", "UPDATE", "DELETE"}
MutationStmts ==
    {Statement(o, t, <<>>, NoWhere, FALSE) : o \in MutationOps, t \in Tables}

\* a statement the planner does not recognise: operation RAW, no table
RawStmt == Statement("RAW", NoTable, <<>>, NoWhere, FALSE)

(***************************************************************************)
(* Batches and the cursor's result                                         *)
(***************************************************************************)
NoResult    == [none |-> TRUE, rows |-> <<>>]
Batch(rows) == [none |-> FALSE, rows |-> rows]

\* names in the local engine: uuid temporaries and plain table names
TempName(n)   == [temp |-> TRUE, n |-> n, table |-> NoTable]
PlainName(t)  == [temp |-> FALSE, n |-> 0, table |-> t]
\* uuid.uuid4(): a name no registration holds
FreshName(regs) ==
    TempName(CHOOSE n \in 1..(Cardinality(regs) + 1) : TempName(n) \notin regs)

(***************************************************************************)
(* The local analytical engine, a black box: what it answers for the       *)
(* statement's SQL over a registered batch.                                *)
(***************************************************************************)
LocalSelect(where, agg, rows) ==
    LET kept == SeqFilter(rows, {i \in 1..Len(rows) : EvalWhere(where, rows[i])})
    IN IF agg THEN << <<Len(kept)>> >> ELSE kept

\* the answer to a statement that needs no registered batch (SELECT 1)
DirectRows == << <<1>> >>

(***************************************************************************)
(* The adapters, as the cursor sees them                                   *)
(***************************************************************************)
\* fetch / fetch_async raises NotImplementedError
FetchUnsupported(kind, m, agg) ==
    \/ m = "async" /\ kind = "custom"          \* BaseAdapter.fetch_async
    \/ agg /\ kind \in {"jira", "custom"}      \* no aggregation pushdown

\* what an adapter that honours its pushdown input returns
AdapterFetch(table, predicates, agg) ==
    LET kept == FilterRows(RemoteRows(table), predicates)
    IN IF agg THEN << <<Len(kept)>> >> ELSE kept

\* insert / update / delete is BaseAdapter's: raises NotImplementedError
MutationUnsupported(kind, o) ==
    \/ kind = "custom"
    \/ kind = "file" /\ o \in {"UPDATE", "DELETE"}

\* the async cursor calls <op>_async, which these adapters do not define
MutationUndefined(kind, m, o) ==
    m = "async" /\ MutationUnsupported(kind, o)

(***************************************************************************)
(* What one branch of execute hands back: the value it returns or the      *)
(* error it raises, and the cursor and engine state it leaves.             *)
(***************************************************************************)
Returned(res, rc, cs, regs, temps, rep) ==
    [outcome |-> "returned", result |-> res, rowcount |-> rc, calls |-> cs,
     regs |-> regs, temps |-> temps,
     origin |-> "none", raisedKind |-> "none", reported |-> rep]

Raised(kind, org, rk, rc, cs, regs, temps) ==
    [outcome |-> kind, result |-> NoResult, rowcount |-> rc, calls |-> cs,
     regs |-> regs, temps |-> temps,
     origin |-> org, raisedKind |-> rk, reported |-> -1]

NoFault == "none"

(***************************************************************************)
(* Fallback: cursor.py 172-188, async_cursor.py 103-113                    *)
(***************************************************************************)
\* the registrations left when the try block ends: finally unregisters
FallbackReleaseLeak(regs, temp, ok) == IF ok THEN regs \ {temp} ELSE regs
FallbackRelease(regs, temp, ok) == regs \ {temp}

\* engine: which call into the local engine fails ("ok": none); an error is
\* recorded with origin "register" (the register call) or "engine" (SQL)
FallbackLocal(st, raw, rc, cs, regs, engine) ==
    LET temp  == FreshName(regs)
        after == FallbackRelease(regs \cup {temp}, temp, engine = "ok")
        rows  == LocalSelect(st.where, st.agg, raw)
    IN IF engine = "register"
       THEN Raised(EngineError, "register", EngineError, rc, cs, regs, {})
       ELSE IF engine = "execute"
       THEN Raised(EngineError, "engine", EngineError, rc, cs, after,
                   {temp})
       ELSE Returned(Batch(rows), Len(rows), cs, after, {temp}, -1)

(***************************************************************************)
(* SELECT through an adapter: cursor.py 142-188, async_cursor.py 68-89     *)
(* f1, f2: the error the source answers the first / second fetch with      *)
(***************************************************************************)
ExecSelect(st, kind, m, rc, regs, f1, f2, engine) ==
    LET preds == ParseCondition(st.where)
    IN IF f1 # NoFault
       THEN Raised(f1, "adapter", f1, rc, <<"fetch">>, regs, {})
       ELSE IF ~FetchUnsupported(kind, m, st.agg)
       THEN LET data == AdapterFetch(st.table, preds, st.agg)
            IN Returned(Batch(data), Len(data), <<"fetch">>, regs, {}, -1)
       ELSE \* except NotImplementedError: fetch the filtered rows again
            LET cs == <<"fetch", "fetch">>
            IN IF f2 # NoFault
               THEN Raised(f2, "adapter", f2, rc, cs, regs, {})
               ELSE IF FetchUnsupported(kind, m, FALSE)
               THEN Raised(NotImpl, "adapter", NotImpl, rc, cs, regs, {})
               ELSE LET raw == AdapterFetch(st.table, preds, FALSE)
                    IN IF Len(raw) = 0
                       THEN Returned(Batch(raw), 0, cs, regs, {}, -1)
                       ELSE FallbackLocal(st, raw, rc, cs, regs, engine)

(***************************************************************************)
(* INSERT / UPDATE / DELETE through an adapter: cursor.py 190-216,         *)
(* async_cursor.py 91-101.  f: the error the adapter's method raises;      *)
(* count: the rows it reports.                                             *)
(***************************************************************************)
MethodOf(o) ==
    CASE o = "INSERT" -> "insert"
      [] o = "UPDATE" -> "update"
      [] o = "DELETE" -> "delete"
      [] OTHER        -> "none"

\* the adapter calls one mutation makes
MutationCallsTwice(o) == <<MethodOf(o), MethodOf(o)>>
MutationCalls(o) == <<MethodOf(o)>>

\* cursor._rowcount after the adapter's method returned count
MutationRowcount(rc, count) == count

ExecMutation(st, kind, m, rc, regs, f, count) ==
    IF st.op \notin MutationOps
    THEN Raised("QueryError", "cursor", "QueryError", rc, <<>>, regs, {})
    ELSE IF MutationUndefined(kind, m, st.op)
    THEN Raised("AttributeError", "cursor", "AttributeError", rc, <<>>, regs, {})
    ELSE IF MutationUnsupported(kind, st.op)
    THEN Raised(NotImpl, "adapter", NotImpl, rc, MutationCalls(st.op), regs, {})
    ELSE IF f # NoFault
    THEN Raised(f, "adapter", f, rc, MutationCalls(st.op), regs, {})
    ELSE [Returned(NoResult, MutationRowcount(rc, count),
                   MutationCalls(st.op), regs, {}, count)
          EXCEPT !.reported = count]

\* WaveQLCursor._execute_via_adapter / _execute_via_adapter_async
ExecViaAdapter(st, kind, m, rc, regs, f1, f2, engine, count) ==
    IF st.op = "SELECT"
    THEN ExecSelect(st, kind, m, rc, regs, f1, f2, engine)
    ELSE ExecMutation(st, kind, m, rc, regs, f1, count)

(***************************************************************************)
(* Direct execution: cursor.py 288-298, async_cursor.py 168-170            *)
(***************************************************************************)
\* the kind the caller sees when the local engine raises
DirectSurface(m, kind) == IF m = "sync" THEN "QueryError" ELSE kind

ExecDirect(st, m, rc, regs, engine) ==
    IF engine = "execute"
    THEN Raised(DirectSurface(m, EngineError), "engine", EngineError, rc,
                <<>>, regs, {})
    ELSE Returned(Batch(DirectRows), rc, <<>>, regs, {}, -1)

(***************************************************************************)
(* Virtual join: cursor.py 218-286, async_cursor.py 115-166                *)
(***************************************************************************)
\* tables = {query_info.table} plus every join's table
JoinTables(st) == {st.table} \cup {st.joins[i] : i \in DOMAIN st.joins}

\* a Python set iterates in an order the program does not choose
Orders(S) ==
    {o \in [1..Cardinality(S) -> S] :
        \A i, j \in 1..Cardinality(S) : i # j => o[i] # o[j]}

NoErr == [origin |-> "none", kind |-> "none"]

\* the steps of one table's fetch-and-register that can fail
JoinSteps(def, t) ==
    IF ResolveAdapter(def, t) = "none" THEN {}
    ELSE IF t.schema # "" THEN {"fetch", "schema", "register", "view"}
    ELSE {"fetch", "register"}

\* one iteration of the loop, failing at failStep (fault: the fetch's error)
JoinStep(t, kind, m, acc, failStep, fault) ==
    IF kind = "none" THEN acc
    ELSE LET a1 == [acc EXCEPT !.calls = Append(@, "fetch")]
         IN IF failStep = "fetch"
            THEN [a1 EXCEPT !.err = [origin |-> "adapter", kind |-> fault]]
            ELSE IF FetchUnsupported(kind, m, FALSE)
            THEN [a1 EXCEPT !.err = [origin |-> "adapter", kind |-> NotImpl]]
            ELSE IF failStep = "schema"
            THEN [a1 EXCEPT !.err = [origin |-> "engine", kind |-> EngineError]]
            ELSE IF failStep = "register"
            THEN [a1 EXCEPT !.err = [origin |-> "register",
                                     kind |-> EngineError]]
            ELSE IF t.schema # ""
            THEN LET temp == FreshName(a1.regs)
                     a2 == [a1 EXCEPT !.regs = @ \cup {temp},
                                      !.tracked = @ \cup {temp},
                                      !.temps = @ \cup {temp}]
                 IN \* CREATE OR REPLACE VIEW "schema"."name" over the temporary
                    IF failStep = "view"
                    THEN [a2 EXCEPT !.err = [origin |-> "engine",
                                             kind |-> EngineError]]
                    ELSE a2
            ELSE [a1 EXCEPT !.regs = @ \cup {PlainName(t)},
                            !.tracked = @ \cup {PlainName(t)},
                            !.temps = @ \cup {PlainName(t)}]

RECURSIVE JoinLoad(_, _, _, _, _, _)
\* the loop over the tables from position i on; an error ends it
JoinLoad(order, i, def, m, acc, fail) ==
    IF i > Len(order) \/ acc.err # NoErr THEN acc
    ELSE JoinLoad(order, i + 1, def, m,
                  JoinStep(order[i], ResolveAdapter(def, order[i]), m, acc,
                           IF fail.at = i THEN fail.step ELSE "none",
                           fail.kind),
                  fail)

\* finally: the registrations left after unregistering registered_tables
JoinCleanupOnSuccess(regs, tracked, ok) == IF ok THEN regs \ tracked ELSE regs
JoinCleanup(regs, tracked, ok) == regs \ tracked

\* except Exception: the kind the caller sees
JoinSurface(kind) == "QueryError"

\* the rows a table contributes to a local join
LocalRows(def, t) ==
    IF ResolveAdapter(def, t) = "none" THEN <<>> ELSE RemoteRows(t)

RECURSIVE EquiJoin(_, _)
\* the local engine's answer to the join: rows paired on equal first column
EquiJoin(left, right) ==
    IF left = <<>> THEN <<>>
    ELSE SeqFilter([i \in 1..Len(right) |-> Head(left) \o right[i]],
                   {i \in 1..Len(right) : right[i][1] = Head(left)[1]})
         \o EquiJoin(Tail(left), right)

JoinRows(def, st) ==
    EquiJoin(LocalRows(def, st.table), LocalRows(def, st.joins[1]))

\* cursor._rowcount after a virtual join: only the sync cursor sets it
JoinRowcount(m, rc) == IF m = "sync" THEN -1 ELSE rc

ExecVirtualJoin(st, m, def, rc, regs, order, fail, engine) ==
    LET acc0 == [regs |-> regs, tracked |-> {}, temps |-> {},
                 calls |-> <<>>, err |-> NoErr]
        acc  == JoinLoad(order, 1, def, m, acc0, fail)
        err  == IF acc.err # NoErr THEN acc.err
                ELSE IF engine = "execute"
                THEN [origin |-> "engine", kind |-> EngineError]
                ELSE NoErr
        after == JoinCleanup(acc.regs, acc.tracked, err = NoErr)
    IN IF err = NoErr
       THEN Returned(Batch(JoinRows(def, st)), JoinRowcount(m, rc), acc.calls,
                     after, acc.temps, -1)
       ELSE Raised(JoinSurface(err.kind), err.origin, err.kind, rc, acc.calls,
                   after, acc.temps)

(***************************************************************************)
(* The cursor: execute (cursor.py 65-99, async_cursor.py 37-56) and close  *)
(***************************************************************************)
\* no call yet, nothing handed out
NoCall == [call |-> "none", from |-> 0, value |-> <<>>, none |-> FALSE,
           handed |-> <<>>]

\* what execute (or executemany, for its last execute) does with a
\* branch's outcome r
SettleFields(st, r, call) ==
    /\ stmt' = st
    /\ outcome' = r.outcome
    /\ origin' = r.origin
    /\ raisedKind' = r.raisedKind
    /\ calls' = r.calls
    /\ tempRegs' = r.temps
    /\ reported' = r.reported
    /\ rowcount' = r.rowcount
    /\ registered' = r.regs
    /\ IF r.outcome = "returned"
       THEN /\ result' = r.result
            /\ resultIndex' = 0
            /\ last' = [NoCall EXCEPT !.call = call]
       ELSE /\ UNCHANGED <<result, resultIndex>>
            /\ last' = [NoCall EXCEPT !.call = call, !.from = resultIndex,
                                      !.handed = last.handed]

Settle(st, r, call) ==
    /\ SettleFields(st, r, call)
    /\ UNCHANGED <<mode, defaultAdapter, closed, areq, lim, plan, sch, rl,
                   run, connectionClosed>>

Finish(st, r) == Settle(st, r, "execute")

Routed(st) == ResolveAdapter(defaultAdapter, st.table)

FaultChoices == {NoFault} \cup AdapterFaults

\* execute on a closed cursor
ExecuteClosed ==
    /\ closed
    /\ \E st \in {RawStmt, Statement("SELECT", T_issue, <<>>, NoWhere, FALSE)} :
         Finish(st, Raised("QueryError", "cursor", "QueryError", rowcount,
                           <<>>, registered, {}))

\* a SELECT whose first fetch returns or fails with an error of the source
Pushdown(stmts, faults) ==
    /\ ~closed
    /\ \E st \in stmts, f1 \in faults :
         /\ Routed(st) # "none"
         /\ f1 # NoFault \/ ~FetchUnsupported(Routed(st), mode, st.agg)
         /\ Finish(st, ExecViaAdapter(st, Routed(st), mode, rowcount,
                                      registered, f1, NoFault, "ok", 1))

ExecutePushdown == Pushdown(BasicSelects, FaultChoices)
SelectPushdown  == Pushdown(SelectStmts, {NoFault})

EngineFaults == {"ok", "register", "execute"}

\* a SELECT whose first fetch raises NotImplementedError
Fallback(stmts, faults, engines) ==
    /\ ~closed
    /\ \E st \in stmts, f2 \in faults, engine \in engines :
         /\ Routed(st) # "none"
         /\ FetchUnsupported(Routed(st), mode, st.agg)
         /\ engine # "ok" =>
              /\ f2 = NoFault
              /\ ~FetchUnsupported(Routed(st), mode, FALSE)
              /\ AdapterFetch(st.table, ParseCondition(st.where), FALSE) # <<>>
         /\ Finish(st, ExecViaAdapter(st, Routed(st), mode, rowcount,
                                      registered, NoFault, f2, engine, 1))

ExecuteFallback == Fallback(BasicSelects, FaultChoices, EngineFaults)
SelectFallback  == Fallback(SelectStmts, {NoFault}, {"ok"})

\* the counts an adapter's mutation method reports
Counts == 0..MaxVal

\* INSERT, UPDATE or DELETE through an adapter
ExecuteMutation ==
    /\ ~closed
    /\ \E st \in MutationStmts, f \in FaultChoices \cup {"QueryError"},
          count \in Counts :
         /\ Routed(st) # "none"
         /\ f # NoFault => count = 0
         /\ Finish(st, ExecViaAdapter(st, Routed(st), mode, rowcount,
                                      registered, f, NoFault, "ok", count))

\* a SELECT with JOIN clauses
ExecuteVirtualJoin ==
    /\ ~closed
    /\ \E st \in JoinStmts, engine \in {"ok", "execute"} :
         \E order \in Orders(JoinTables(st)) :
           \E at \in 0..Len(order) :
             \E step \in IF at = 0 THEN {"none"}
                         ELSE JoinSteps(defaultAdapter, order[at]) :
               \E f \in IF step = "fetch" THEN AdapterFaults ELSE {NoFault} :
                 /\ at # 0 => engine = "ok"
                 /\ Finish(st, ExecVirtualJoin(st, mode, defaultAdapter,
                                 rowcount, registered, order,
                                 [at |-> at, step |-> step, kind |-> f],
                                 engine))

\* a statement no adapter serves: straight to the local engine
ExecuteDirect ==
    /\ ~closed
    /\ \E st \in {RawStmt} \cup BasicSelects \cup MutationStmts,
          engine \in {"ok", "execute"} :
         /\ Routed(st) = "none"
         /\ Finish(st, ExecDirect(st, mode, rowcount, registered, engine))

\* a close that flips self._closed
CloseToggles ==
    /\ closed' = ~closed
    /\ result' = NoResult
    /\ last' = [NoCall EXCEPT !.call = "close", !.from = resultIndex,
                              !.handed = last.handed]
    /\ UNCHANGED <<mode, defaultAdapter, rowcount, resultIndex, registered,
                   stmt, outcome, origin, raisedKind, calls, tempRegs,
                   reported, areq, lim, plan, sch, rl, run, connectionClosed>>

\* WaveQLCursor.close / AsyncWaveQLCursor.close
Close ==
    /\ closed' = TRUE
    /\ result' = NoResult
    /\ last' = [NoCall EXCEPT !.call = "close", !.from = resultIndex,
                              !.handed = last.handed]
    /\ UNCHANGED <<mode, defaultAdapter, rowcount, resultIndex, registered,
                   stmt, outcome, origin, raisedKind, calls, tempRegs,
                   reported, areq, lim, plan, sch, rl, run, connectionClosed>>

\* no adapter request and no fetch under LIMIT is being followed
IdleRequest == [phase |-> "idle"]
IdleLimit == [phase |-> "idle"]
IdlePlan == [phase |-> "idle"]
IdleSchema == [phase |-> "idle"]
IdleRetry == [phase |-> "idle"]
IdleRun == [phase |-> "idle"]

Init ==
    /\ mode \in {"sync", "async"}
    /\ defaultAdapter \in {"none", "servicenow"}
    /\ closed = FALSE
    /\ result = NoResult
    /\ rowcount = -1
    /\ resultIndex = 0
    /\ registered = {}
    /\ last = NoCall
    /\ connectionClosed = FALSE
    /\ run = IdleRun
    /\ stmt = RawStmt
    /\ outcome = "fresh"
    /\ origin = "none"
    /\ raisedKind = "none"
    /\ calls = <<>>
    /\ tempRegs = {}
    /\ reported = -1
    /\ areq = IdleRequest
    /\ lim = IdleLimit
    /\ plan = IdlePlan
    /\ sch = IdleSchema
    /\ rl = IdleRetry

Next ==
    \/ ExecuteClosed
    \/ ExecutePushdown
    \/ ExecuteFallback
    \/ ExecuteMutation
    \/ ExecuteVirtualJoin
    \/ ExecuteDirect
    \/ Close

Spec == Init /\ [][Next]_vars

\* the cursor serving SELECTs only, every request answered
NextSelect ==
    \/ SelectPushdown
    \/ SelectFallback

SpecSelect == Init /\ [][NextSelect]_vars

(***************************************************************************)
(* Properties of the cursor                                                *)
(***************************************************************************)
\* the last execute was a SELECT without JOIN that an adapter served
RoutedSelect ==
    /\ outcome # "fresh"
    /\ stmt.op = "SELECT"
    /\ stmt.joins = <<>>
    /\ Routed(stmt) # "none"

\* the last execute was a SELECT with JOIN clauses
JoinSelect == outcome # "fresh" /\ stmt.op = "SELECT" /\ stmt.joins # <<>>

\* the last execute was a mutation that an adapter served
RoutedMutation ==
    /\ outcome # "fresh"
    /\ stmt.op \in MutationOps
    /\ Routed(stmt) # "none"

\* C1: a routed SELECT without JOIN whose WHERE contains OR returns the rows
\* the local engine produces for the full statement over the adapter's
\* unfiltered batch
C1_DisjunctionEvaluatedLocally ==
    (RoutedSelect /\ outcome = "returned" /\ ContainsOr(stmt.where))
        => result = Batch(LocalSelect(stmt.where, stmt.agg,
                                      RemoteRows(stmt.table)))

\* C2: after an execute that went through the fallback branch, none of the
\* temporary names it registered is still registered, whether it returned or
\* raised, in the sync and the async cursor
C2_FallbackNamesReleased ==
    RoutedSelect => tempRegs \cap registered = {}

\* the fallback registered a temporary and the rewritten SQL then failed
C2_Witness ==
    /\ RoutedSelect
    /\ mode = "async"
    /\ tempRegs # {}
    /\ origin = "engine"
    /\ outcome = EngineError

\* C3: after a virtual-join execute, none of the names it registered is still
\* registered, whether it returned or raised
C3_JoinNamesReleased ==
    JoinSelect => tempRegs \cap registered = {}

\* a virtual join registered a table and the fetch of a later table failed
C3_Witness ==
    /\ JoinSelect
    /\ tempRegs # {}
    /\ origin = "adapter"
    /\ outcome = "QueryError"
    /\ Len(calls) > 1

C7_NotImplementedNeverSurfaces ==
    outcome # NotImpl

\* C8: an error of the source that an adapter raises during a SELECT, in the
\* pushdown, fallback or virtual-join branch, reaches the caller as the same
\* kind
C8_AdapterErrorsSurfaceUnchanged ==
    (outcome # "fresh" /\ stmt.op = "SELECT" /\ origin = "adapter"
        /\ raisedKind \in AdapterFaults)
        => outcome = raisedKind

\* C9: an error the local engine raises while executing SQL reaches the caller
\* as QueryError
C9_EngineErrorsSurfaceAsQueryError ==
    (outcome # "fresh" /\ origin = "engine") => outcome = "QueryError"

(***************************************************************************)
(* One statement with its parameter tuple, from the cursor's dispatch to   *)
(* the native request the adapter builds.                                  *)
(***************************************************************************)
\* the predicates of a WHERE clause
MaxPreds == 2
\* the parameters passed to execute
MaxParams == 2

\* QueryInfo values: a ParameterPlaceholder, or a literal (0: the empty
\* string, which Python takes for false)
Placeholder == [ph |-> TRUE, v |-> 0]
Lit(n)      == [ph |-> FALSE, v |-> n]
\* None
NoKey       == [ph |-> FALSE, v |-> -1]

\* `not value`
Falsy(value) == ~value.ph /\ value.v <= 0

\* str.lower() on the column names of the workload
Lower(c) == IF c = "KEY" THEN "key" ELSE c

\* each adapter's key columns are plain columns to the other
Columns == {"sys_id", "KEY", "id"}

Predicates ==
    [column : Columns, operator : {"=", "!="}, value : {Placeholder, Lit(1)}]
    \cup {[column |-> "sys_id", operator |-> "=", value |-> Lit(0)],
          [column |-> "id", operator |-> "=", value |-> Lit(0)]}

PredicateLists == UNION {[1..n -> Predicates] : n \in 0..MaxPreds}

\* the SET / VALUES entries, in the order of the dict
ValueLists == UNION {[1..n -> {Placeholder, Lit(1)}] : n \in 1..2}

\* parameter tuples: values no literal of the workload has
ParamTuples == {[i \in 1..n |-> MaxVal + i] : n \in 0..MaxParams}

Targets ==
    {[adapter |-> "servicenow", table |-> "incident"],
     [adapter |-> "jira", table |-> "issue"],
     [adapter |-> "jira", table |-> "project"],
     [adapter |-> "file", table |-> "data"]}

Request(t, o, ps, vs, params) ==
    [phase |-> "pending", adapter |-> t.adapter, table |-> t.table, op |-> o,
     predicates |-> ps, values |-> vs, parameters |-> params,
     outcome |-> "none", http |-> 0, key |-> NoKey, body |-> <<>>,
     query |-> <<>>]

\* the requests of one operation
RequestsOf(o) ==
    {Request(t, o, ps, vs, params) :
        t \in Targets,
        ps \in IF o = "INSERT" THEN {<<>>} ELSE PredicateLists,
        vs \in CASE o = "INSERT" -> ValueLists
                 [] o = "UPDATE" -> {<<Lit(1)>>, <<Placeholder>>}
                 [] OTHER        -> {<<>>},
        params \in ParamTuples}

\* what an adapter call hands back: its outcome, the HTTP requests it sent
\* and the native request it built (record key in the URL, JSON body or row
\* written, query conditions)
Answer(out, http, key, body, query) ==
    [outcome |-> out, http |-> http, key |-> key, body |-> body,
     query |-> query]

RECURSIVE FindKey(_, _)
\* the loop over the predicates for the first equality on a key column
FindKey(predicates, keyColumns) ==
    IF predicates = <<>> THEN NoKey
    ELSE IF Lower(Head(predicates).column) \in keyColumns
            /\ Head(predicates).operator = "="
    THEN Head(predicates).value
    ELSE FindKey(Tail(predicates), keyColumns)

\* `if not sys_id:` / `if not issue_key:`
MissingKeyIgnored(key) == FALSE
MissingKey(key) == key = NoKey \/ Falsy(key)

\* the answer of the server to a mutation request; requests errors are
\* re-raised as QueryError
Sent(ok, key, body) ==
    Answer(IF ok THEN "returned" ELSE "QueryError", 1, key, body, <<>>)

\* ServiceNowAdapter.update / delete
ServiceNowKeyed(o, predicates, values, ok) ==
    LET sys_id == FindKey(predicates, {"sys_id"})
    IN IF MissingKey(sys_id)
       THEN Answer("QueryError", 0, NoKey, <<>>, <<>>)
       ELSE Sent(ok, sys_id, IF o = "UPDATE" THEN values ELSE <<>>)

\* ServiceNowAdapter.insert
ServiceNowInsert(values, ok) == Sent(ok, NoKey, values)

\* JiraAdapter.update / delete
JiraKeyed(table, o, predicates, values, ok) ==
    LET issue_key == FindKey(predicates, {"key", "id"})
    IN IF table \notin {"issue", "issues"}
       THEN Answer("QueryError", 0, NoKey, <<>>, <<>>)
       ELSE IF MissingKey(issue_key)
       THEN Answer("QueryError", 0, NoKey, <<>>, <<>>)
       ELSE Sent(ok, issue_key, IF o = "UPDATE" THEN values ELSE <<>>)

\* JiraAdapter.insert
JiraInsert(table, values, ok) ==
    IF table \notin {"issue", "issues"}
    THEN Answer("QueryError", 0, NoKey, <<>>, <<>>)
    ELSE Sent(ok, NoKey, values)

RECURSIVE Substitute(_, _, _)
\* FileAdapter.insert: the loop that resolves placeholders, param_idx = idx
Substitute(values, parameters, idx) ==
    IF values = <<>> THEN [ok |-> TRUE, vals |-> <<>>]
    ELSE IF Head(values).ph
    THEN IF idx < Len(parameters)
         THEN LET rest == Substitute(Tail(values), parameters, idx + 1)
              IN [ok |-> rest.ok,
                  vals |-> IF rest.ok
                           THEN <<Lit(parameters[idx + 1])>> \o rest.vals
                           ELSE <<>>]
         ELSE [ok |-> FALSE, vals |-> <<>>]
    ELSE LET rest == Substitute(Tail(values), parameters, idx)
         IN [ok |-> rest.ok,
             vals |-> IF rest.ok THEN <<Head(values)>> \o rest.vals ELSE <<>>]

\* FileAdapter.insert on a CSV file: the row appended
FileInsert(values, parameters) ==
    LET resolved == Substitute(values, parameters, 0)
    IN IF resolved.ok
       THEN Answer("returned", 0, NoKey, resolved.vals, <<>>)
       ELSE Answer("QueryError", 0, NoKey, <<>>, <<>>)

\* the adapter's insert / update / delete, as the cursor calls it
AdapterMutation(r, ok) ==
    CASE r.adapter = "servicenow" /\ r.op = "INSERT" ->
            ServiceNowInsert(r.values, ok)
      [] r.adapter = "servicenow" /\ r.op # "INSERT" ->
            ServiceNowKeyed(r.op, r.predicates, r.values, ok)
      [] r.adapter = "jira" /\ r.op = "INSERT" ->
            JiraInsert(r.table, r.values, ok)
      [] r.adapter = "jira" /\ r.op # "INSERT" ->
            JiraKeyed(r.table, r.op, r.predicates, r.values, ok)
      [] r.adapter = "file" /\ r.op = "INSERT" ->
            FileInsert(r.values, r.parameters)
      [] OTHER -> \* BaseAdapter.update / delete
            Answer(NotImpl, 0, NoKey, <<>>, <<>>)

\* the conditions of the native query an adapter's fetch builds from the
\* predicates: sysparm_query, JQL or the WHERE of the file's SQL
NativeQuery(adapter, table, predicates) ==
    IF adapter = "jira" /\ table \notin {"issue", "issues"}
    THEN <<>>   \* _fetch_simple sends no predicate
    ELSE [i \in 1..Len(predicates) |-> predicates[i].value]

\* the cursor's SELECT branch: fetch is called without the parameters
AdapterSelect(r) ==
    Answer("returned", IF r.adapter = "file" THEN 0 ELSE 1, NoKey, <<>>,
           NativeQuery(r.adapter, r.table, r.predicates))

Done(r, a) ==
    /\ areq' = [r EXCEPT !.phase = "done", !.outcome = a.outcome,
                         !.http = a.http, !.key = a.key, !.body = a.body,
                         !.query = a.query]
    /\ UNCHANGED <<mode, defaultAdapter, closed, result, rowcount,
                   resultIndex, registered, stmt, outcome, origin,
                   raisedKind, calls, tempRegs, reported, lim, plan, sch,
                   rl, last, run, connectionClosed>>

Pending(o) == areq.phase = "pending" /\ areq.op = o

CallFetch  == Pending("SELECT") /\ Done(areq, AdapterSelect(areq))
CallInsert ==
    Pending("INSERT") /\ \E ok \in BOOLEAN : Done(areq, AdapterMutation(areq, ok))
CallUpdate ==
    Pending("UPDATE") /\ \E ok \in BOOLEAN : Done(areq, AdapterMutation(areq, ok))
CallDelete ==
    Pending("DELETE") /\ \E ok \in BOOLEAN : Done(areq, AdapterMutation(areq, ok))

InitAdapter ==
    /\ mode = "sync"
    /\ defaultAdapter = "servicenow"
    /\ closed = FALSE
    /\ result = NoResult
    /\ rowcount = -1
    /\ resultIndex = 0
    /\ registered = {}
    /\ last = NoCall
    /\ connectionClosed = FALSE
    /\ run = IdleRun
    /\ stmt = RawStmt
    /\ outcome = "fresh"
    /\ origin = "none"
    /\ raisedKind = "none"
    /\ calls = <<>>
    /\ tempRegs = {}
    /\ reported = -1
    /\ \E o \in {"SELECT"} \cup MutationOps : areq \in RequestsOf(o)
    /\ lim = IdleLimit
    /\ plan = IdlePlan
    /\ sch = IdleSchema
    /\ rl = IdleRetry

NextAdapter ==
    \/ CallFetch
    \/ CallInsert
    \/ CallUpdate
    \/ CallDelete

SpecAdapter == InitAdapter /\ [][NextAdapter]_vars

(***************************************************************************)
(* Properties of the adapters' requests                                    *)
(***************************************************************************)
\* the predicates hold an equality on the adapter's record key
HasKeyEquality(adapter, predicates) ==
    \E i \in 1..Len(predicates) :
        /\ Lower(predicates[i].column) \in
              (IF adapter = "servicenow" THEN {"sys_id"} ELSE {"key", "id"})
        /\ predicates[i].operator = "="

\* the placeholders of a request's QueryInfo
PlaceholderCount(r) ==
    Cardinality({i \in 1..Len(r.predicates) : r.predicates[i].value.ph})
    + Cardinality({i \in 1..Len(r.values) : r.values[i].ph})

\* the native request holds a placeholder
NativeHoldsPlaceholder(r) ==
    \/ r.key.ph
    \/ \E i \in 1..Len(r.body) : r.body[i].ph
    \/ \E i \in 1..Len(r.query) : r.query[i].ph

\* C5: a ServiceNow or Jira UPDATE / DELETE whose predicates hold no equality
\* on the record key raises QueryError and sends no HTTP request
C5_KeylessMutationRejected ==
    (/\ areq.phase = "done"
     /\ areq.adapter \in {"servicenow", "jira"}
     /\ areq.op \in {"UPDATE", "DELETE"}
     /\ ~HasKeyEquality(areq.adapter, areq.predicates))
        => (areq.outcome = "QueryError" /\ areq.http = 0)

\* a ServiceNow UPDATE with an empty predicate list was rejected
C5_Witness ==
    /\ areq.phase = "done"
    /\ areq.adapter = "servicenow"
    /\ areq.op = "UPDATE"
    /\ areq.predicates = <<>>
    /\ areq.outcome = "QueryError"
    /\ areq.http = 0

\* C6: the native request of a statement executed with a parameter tuple
\* holds no placeholder, and a statement with more placeholders than
\* parameters raises QueryError
C6_PlaceholdersSubstituted ==
    areq.phase = "done" =>
        /\ areq.outcome = "returned" => ~NativeHoldsPlaceholder(areq)
        /\ PlaceholderCount(areq) > Len(areq.parameters)
              => areq.outcome = "QueryError"

\* the fetch sent fewer conditions than it was given predicates
DropsPredicates(r) == Len(r.query) < Len(r.predicates)

\* C13: a fetch that does not translate the predicates it receives for the
\* addressed table (a Jira fetch on a non-JQL table) fails with
\* NotImplementedError instead of answering with unfiltered rows
C13_UntranslatedPushdownRejected ==
    (areq.phase = "done" /\ areq.op = "SELECT" /\ DropsPredicates(areq))
        => areq.outcome = NotImpl

(***************************************************************************)
(* fetch under LIMIT: the adapters' paging loops against a server that     *)
(* holds the rows 1..total and answers a page request with the rows after  *)
(* its offset, at most as many as it asks for.                             *)
(***************************************************************************)
\* the rows the server holds for the table
MaxRows == 5
\* the largest LIMIT of a statement
MaxLimit == 6
\* the largest page size an adapter is configured with
MaxPage == 2
\* the largest OFFSET of a statement
MaxOffset == 2
\* JiraAdapter.__init__: page_size is capped
JiraMaxPageSize == 100

\* limit = None
NoLimit == -1

\* `if limit:`
Truthy(limit) == limit # NoLimit /\ limit # 0

Max2(a, b) == IF a > b THEN a ELSE b

\* seq[:n]
Take(seq, n) == SubSeq(seq, 1, Min2(n, Len(seq)))

\* the server's answer to a page request
ServerPage(total, offset, n) ==
    [i \in 1..Max2(0, Min2(n, total - offset)) |-> offset + i]

\* ServiceNowAdapter._build_query_params: sysparm_limit
SysparmLimit(limit, pageSize) ==
    IF Truthy(limit) THEN Min2(limit, pageSize) ELSE pageSize

RECURSIVE AllPagesAsyncFrom(_, _, _, _, _)
\* ServiceNowAdapter._fetch_all_pages_async: the while loop at offset
AllPagesAsyncFrom(total, pageSize, limit, offset, all) ==
    LET records == ServerPage(total, offset, pageSize)
        more    == all \o records
    IN IF Len(records) < pageSize THEN more
       ELSE IF Truthy(limit) /\ offset + pageSize >= limit THEN more
       ELSE AllPagesAsyncFrom(total, pageSize, limit, offset + pageSize, more)

FetchAllPagesAsync(total, pageSize, limit) ==
    LET all == AllPagesAsyncFrom(total, pageSize, limit, 0, <<>>)
    IN IF Truthy(limit) THEN Take(all, limit) ELSE all

RECURSIVE FetchParallel(_, _, _)
\* ParallelFetcher.fetch_parallel(stop_on_empty, start_page): the pages from
\* page on, in page order, up to the first page that is not full
FetchParallel(total, pageSize, page) ==
    LET records == ServerPage(total, page * pageSize, pageSize)
    IN IF Len(records) < pageSize THEN records
       ELSE records \o FetchParallel(total, pageSize, page + 1)

\* ServiceNowAdapter._fetch_all_pages
FetchAllPages(total, pageSize, limit) ==
    LET first_page == ServerPage(total, 0, pageSize)
        all == first_page \o FetchParallel(total, pageSize, 1)
    IN IF Len(first_page) < pageSize THEN first_page
       ELSE IF Truthy(limit) THEN Take(all, limit) ELSE all

\* ServiceNowAdapter.fetch / fetch_async without aggregates: sysparm_offset
\* is the statement's offset on the single request; the paging loops
\* overwrite it with their own page offsets
ServiceNowFetchRows(m, total, pageSize, limit, offset) ==
    LET sysparm == SysparmLimit(limit, pageSize)
    IN IF Truthy(limit) /\ limit <= pageSize
       THEN ServerPage(total, offset, sysparm)
       ELSE IF m = "sync" THEN FetchAllPages(total, sysparm, limit)
       ELSE FetchAllPagesAsync(total, sysparm, limit)

\* body["startAt"] of a search request: offset + total_fetched
StartAtRestarts(offset, total_fetched) == offset

StartAt(offset, total_fetched) == offset + total_fetched

RECURSIVE JqlPagesFrom(_, _, _, _, _, _, _)
\* JiraAdapter._fetch_with_jql: the while loop, with all_issues fetched so
\* far and the startAt of every request sent so far
JqlPagesFrom(total, pageSize, maxResults, limit, offset, all_issues, starts) ==
    LET startAt == StartAt(offset, Len(all_issues))
        issues  == ServerPage(total, startAt, maxResults)
        more    == all_issues \o issues
        sent    == Append(starts, startAt)
        done    == [issues |-> more, starts |-> sent]
    IN IF Len(more) >= total THEN done
       ELSE IF Truthy(limit) /\ Len(more) >= limit THEN done
       ELSE IF Len(issues) < pageSize THEN done
       ELSE JqlPagesFrom(total, pageSize, maxResults, limit, offset, more,
                         sent)

\* JiraAdapter._fetch_with_jql / _fetch_with_jql_async: the search requests
JiraSearch(total, configured, limit, offset) ==
    LET pageSize   == Min2(configured, JiraMaxPageSize)
        maxResults == Min2(IF Truthy(limit) THEN limit ELSE pageSize, pageSize)
    IN JqlPagesFrom(total, pageSize, maxResults, limit, offset, <<>>, <<>>)

\* JiraAdapter._fetch_with_jql / _fetch_with_jql_async: records[:limit]
JiraFetchRows(total, configured, limit, offset) ==
    LET records == JiraSearch(total, configured, limit, offset).issues
    IN IF Truthy(limit) THEN Take(records, limit) ELSE records

\* FileAdapter.fetch: the local engine's answer to _build_query's SQL
FileFetchRows(total, limit, offset) ==
    LET all == ServerPage(total, offset, total)
    IN IF Truthy(limit) THEN Take(all, limit) ELSE all

LimitRequests ==
    [phase : {"pending"}, adapter : {"servicenow", "jira", "file"},
     mode : {"sync", "async"}, total : 0..MaxRows,
     limit : {NoLimit} \cup 0..MaxLimit, offset : 0..MaxOffset,
     page : 1..MaxPage, rows : {<<>>}, starts : {<<>>}]

\* the fetch returns rows; starts lists the startAt of the search requests
\* a Jira fetch sent
Fetched(rows, starts) ==
    /\ lim' = [lim EXCEPT !.phase = "done", !.rows = rows, !.starts = starts]
    /\ UNCHANGED <<mode, defaultAdapter, closed, result, rowcount,
                   resultIndex, registered, stmt, outcome, origin,
                   raisedKind, calls, tempRegs, reported, areq, plan, sch,
                   rl, last, run, connectionClosed>>

PendingFetch(adapter) == lim.phase = "pending" /\ lim.adapter = adapter

ServiceNowFetch ==
    /\ PendingFetch("servicenow")
    /\ Fetched(ServiceNowFetchRows(lim.mode, lim.total, lim.page, lim.limit,
                                   lim.offset), <<>>)

JiraFetch ==
    /\ PendingFetch("jira")
    /\ Fetched(JiraFetchRows(lim.total, lim.page, lim.limit, lim.offset),
               JiraSearch(lim.total, lim.page, lim.limit, lim.offset).starts)

FileFetch ==
    /\ PendingFetch("file")
    /\ Fetched(FileFetchRows(lim.total, lim.limit, lim.offset), <<>>)

InitLimit ==
    /\ mode = "sync"
    /\ defaultAdapter = "servicenow"
    /\ closed = FALSE
    /\ result = NoResult
    /\ rowcount = -1
    /\ resultIndex = 0
    /\ registered = {}
    /\ last = NoCall
    /\ connectionClosed = FALSE
    /\ run = IdleRun
    /\ stmt = RawStmt
    /\ outcome = "fresh"
    /\ origin = "none"
    /\ raisedKind = "none"
    /\ calls = <<>>
    /\ tempRegs = {}
    /\ reported = -1
    /\ areq = IdleRequest
    /\ lim \in LimitRequests
    /\ plan = IdlePlan
    /\ sch = IdleSchema
    /\ rl = IdleRetry

NextLimit ==
    \/ ServiceNowFetch
    \/ JiraFetch
    \/ FileFetch

SpecLimit == InitLimit /\ [][NextLimit]_vars

(***************************************************************************)
(* Properties of fetch under LIMIT                                         *)
(***************************************************************************)
\* C10: a fetch with LIMIT L, L >= 0, returns at most L rows
C10_AtMostLimitRows ==
    (lim.phase = "done" /\ lim.limit # NoLimit)
        => Len(lim.rows) <= lim.limit

\* the rows the server lists after the first offset rows, at most limit of
\* them when the statement has a LIMIT
RowsAfter(total, offset, limit) ==
    LET rest == ServerPage(total, offset, total)
    IN IF limit = NoLimit THEN rest ELSE Take(rest, limit)

\* the first request starts at the offset and every later one where the
\* page before it ended
StartsFollowRows(starts, total, offset, maxResults) ==
    /\ starts[1] = offset
    /\ \A i \in 1..(Len(starts) - 1) :
          starts[i + 1] =
              starts[i] + Len(ServerPage(total, starts[i], maxResults))

JiraDone == lim.phase = "done" /\ lim.adapter = "jira"

\* C11 as stated: a Jira fetch with LIMIT L >= 1 returns exactly min(L, T)
\* rows, and T rows without LIMIT
C11_JiraReturnsMinLimitTotal ==
    (JiraDone /\ (lim.limit = NoLimit \/ lim.limit >= 1))
        => Len(lim.rows) = (IF lim.limit = NoLimit THEN lim.total
                            ELSE Min2(lim.limit, lim.total))

\* C11: a Jira fetch with OFFSET o and LIMIT L >= 1 (or no LIMIT) returns
\* the rows the server lists after the first o rows, min(L, max(T - o, 0))
\* of them (all of them without LIMIT), in the server's order; it sends
\* finitely many requests, each at startAt = o + rows received so far
C11_JiraPaginationExact ==
    (JiraDone /\ (lim.limit = NoLimit \/ lim.limit >= 1))
        => /\ lim.rows = RowsAfter(lim.total, lim.offset, lim.limit)
           /\ Len(lim.starts) >= 1
           /\ Len(lim.starts) <= Max2(0, lim.total - lim.offset) + 1
           /\ StartsFollowRows(lim.starts, lim.total, lim.offset,
                               Min2(IF lim.limit = NoLimit THEN lim.page
                                    ELSE lim.limit, lim.page))

\* a fetch of several pages from an offset, cut by its LIMIT
C11_Witness ==
    /\ JiraDone
    /\ lim.offset >= 1
    /\ lim.limit >= 1
    /\ lim.limit < lim.total - lim.offset
    /\ Len(lim.starts) >= 2
    /\ Len(lim.rows) = lim.limit

ServiceNowDone == lim.phase = "done" /\ lim.adapter = "servicenow"

\* C12: a ServiceNow fetch with OFFSET o returns the rows that follow the
\* first o rows of the server's result (at most LIMIT of them), whether it
\* is served as a single page or paginated, in the sync and the async path
C12_ServiceNowOffsetSkipsRows ==
    (ServiceNowDone /\ (lim.limit = NoLimit \/ lim.limit >= 1))
        => lim.rows = RowsAfter(lim.total, lim.offset, lim.limit)

(***************************************************************************)
(* The planner: QueryPlanner.parse on a SQL text.  A text is a sequence of *)
(* tokens: blanks, the EXPLAIN keyword and a statement, which its leading  *)
(* keyword stands for; the statement's WHERE clause is its condition tree. *)
(***************************************************************************)
\* the most blanks before and after a statement
MaxPad == 1
\* the most EXPLAIN keywords before a statement
MaxExplain == 1

Blank == " "

\* SELEC is no SQL (sqlglot raises), CREATE is SQL of another kind
Keywords == {"SELECT", "INSERT", "UPDATE", "DELETE", "CREATE", "SELEC"}

Blanks(n) == [i \in 1..n |-> Blank]

RECURSIVE Explains(_)
Explains(n) == IF n = 0 THEN <<>> ELSE <<"EXPLAIN", Blank>> \o Explains(n - 1)

SqlText(lead, explains, keyword, trail) ==
    Blanks(lead) \o Explains(explains) \o <<keyword>> \o Blanks(trail)

RECURSIVE StripLeft(_)
StripLeft(sql) ==
    IF sql # <<>> /\ Head(sql) = Blank THEN StripLeft(Tail(sql)) ELSE sql

RECURSIVE StripRight(_)
StripRight(sql) ==
    IF sql # <<>> /\ sql[Len(sql)] = Blank
    THEN StripRight(SubSeq(sql, 1, Len(sql) - 1))
    ELSE sql

\* str.strip()
Strip(sql) == StripRight(StripLeft(sql))

QueryInfo(operation, raw_sql, predicates) ==
    [operation |-> operation, raw_sql |-> raw_sql, predicates |-> predicates,
     is_explain |-> FALSE]

RECURSIVE Parse(_, _)
\* QueryPlanner.parse
Parse(text, where) ==
    LET sql == Strip(text)
    IN IF Head(sql) = "EXPLAIN" /\ Len(sql) > 1
       THEN \* inner_sql is the text after the keyword
            [Parse(Tail(sql), where) EXCEPT !.is_explain = TRUE]
       ELSE IF Head(sql) \in {"SELECT", "UPDATE", "DELETE"}
       THEN QueryInfo(Head(sql), sql, ParseCondition(where))
       ELSE IF Head(sql) = "INSERT"
       THEN QueryInfo("INSERT", sql, <<>>)
       ELSE QueryInfo("RAW", sql, <<>>)

\* the conditions of a WHERE clause, as sqlglot's parser builds them: AND
\* and OR associate to the left and AND binds tighter, so only a
\* parenthesis puts an OR below an AND or a connective to the right of its
\* own kind
PlanLeaves == {Leaf(1, "=", 1), Leaf(2, "LIKE", 2)}

Connect(ls, rs) ==
    {AndT(l, r) : l \in ls, r \in rs} \cup {OrT(l, r) : l \in ls, r \in rs}

Grouped(ts) == {ParenT(t) : t \in ts}

WellFormed(t) ==
    \A i \in 1..Len(t) :
        LET left  == t[i + 1].k
            right == t[i + 1 + SubtreeLen(t, i + 1)].k
        IN /\ t[i].k = "and" => left # "or" /\ right \notin {"and", "or"}
           /\ t[i].k = "or" => right # "or"

Conditions(leaves) ==
    LET flat == leaves \cup Connect(leaves, leaves) \cup Grouped(leaves)
    IN {t \in flat \cup Connect(flat, flat) \cup Grouped(flat) :
           WellFormed(t)}

\* the statements handed to parse
PlanInputs(keyword) ==
    [phase : {"pending"},
     text : {SqlText(lead, explains, keyword, trail) :
                lead \in 0..MaxPad, explains \in 0..MaxExplain,
                trail \in 0..MaxPad},
     where : IF keyword = "SELECT"
             THEN {NoWhere} \cup Conditions(PlanLeaves)
             ELSE {NoWhere},
     info : {QueryInfo("RAW", <<>>, <<>>)}]

\* planner.parse(sql)
ParseStatement ==
    /\ plan.phase = "pending"
    /\ plan' = [plan EXCEPT !.phase = "parsed",
                            !.info = Parse(plan.text, plan.where)]
    /\ UNCHANGED <<mode, defaultAdapter, closed, result, rowcount,
                   resultIndex, registered, stmt, outcome, origin,
                   raisedKind, calls, tempRegs, reported, areq, lim, sch,
                   rl, last, run, connectionClosed>>

InitPlan ==
    /\ mode = "sync"
    /\ defaultAdapter = "servicenow"
    /\ closed = FALSE
    /\ result = NoResult
    /\ rowcount = -1
    /\ resultIndex = 0
    /\ registered = {}
    /\ last = NoCall
    /\ connectionClosed = FALSE
    /\ run = IdleRun
    /\ stmt = RawStmt
    /\ outcome = "fresh"
    /\ origin = "none"
    /\ raisedKind = "none"
    /\ calls = <<>>
    /\ tempRegs = {}
    /\ reported = -1
    /\ areq = IdleRequest
    /\ lim = IdleLimit
    /\ \E keyword \in Keywords : plan \in PlanInputs(keyword)
    /\ sch = IdleSchema
    /\ rl = IdleRetry

NextPlan == ParseStatement

SpecPlan == InitPlan /\ [][NextPlan]_vars

(***************************************************************************)
(* Properties of the planner                                               *)
(***************************************************************************)
RECURSIVE AndLeavesAt(_, _)
\* the leaves of the condition at position i that no OR lies above, from
\* left to right; a parenthesis only groups
AndLeavesAt(t, i) ==
    CASE t[i].k = "and" ->
            AndLeavesAt(t, i + 1)
            \o AndLeavesAt(t, i + 1 + SubtreeLen(t, i + 1))
      [] t[i].k = "paren" -> AndLeavesAt(t, i + 1)
      [] t[i].k = "leaf" ->
            << [column |-> t[i].col, operator |-> t[i].op,
                value |-> t[i].val] >>
      [] OTHER -> <<>>

AndLeaves(where) == IF where = NoWhere THEN <<>> ELSE AndLeavesAt(where, 1)

\* C14: the predicates of a parsed SELECT are exactly the leaves of its
\* WHERE condition that are reachable from the root through AND only, each
\* once, from left to right, and no leaf below an OR
C14_PredicatesAreConjunctionLeaves ==
    (plan.phase = "parsed" /\ plan.info.operation = "SELECT")
        => plan.info.predicates = AndLeaves(plan.where)

\* C15: the QueryInfo of every SQL text the planner accepts has raw_sql
\* equal to the stripped text
C15_RawSqlIsStrippedText ==
    plan.phase = "parsed" => plan.info.raw_sql = Strip(plan.text)

(***************************************************************************)
(* The schema cache: fetches on one table name through adapter instances   *)
(* that share the connection's cache.  A schema is the set of its column   *)
(* names; the servers' records carry every field of their table, or the    *)
(* fields the request names.                                               *)
(***************************************************************************)
\* the fetches of one run
MaxFetches == 3

\* columns = None or ["*"]
Star == {"*"}

Kinds == {"servicenow", "jira"}

\* the adapter instances of a kind, each with its own host
Instances == {1, 2}

\* the fields of the table on an instance's server
ServerFields(inst) == IF inst = 1 THEN {"a", "b"} ELSE {"a", "c"}

\* the column lists of the statements
ColumnLists == {Star, {"a"}}

\* sysparm_fields / body["fields"]: the fields of the records in the answer
RecordFields(inst, columns) ==
    IF columns = Star THEN ServerFields(inst)
    ELSE columns \cap ServerFields(inst)

\* SchemaCache.get(adapter_name, table): no entry reads as no columns
GetCachedSchema(cache, kind) == cache[kind]

\* _get_or_discover_schema: the cached schema if there is one, else the
\* keys of the first record
GetOrDiscoverSchema(cache, kind, fields) ==
    IF GetCachedSchema(cache, kind) # {} THEN GetCachedSchema(cache, kind)
    ELSE fields

\* _cache_schema after a discovery
CacheSchema(cache, kind, fields) ==
    IF GetCachedSchema(cache, kind) # {} THEN cache
    ELSE [cache EXCEPT ![kind] = fields]

\* _to_arrow: the columns of the table returned
ToArrow(schema, columns) ==
    {c \in schema : columns = Star \/ c \in columns}

\* adapter.fetch(table, columns) on an instance of a kind
SchemaFetch ==
    /\ sch.fetches < MaxFetches
    /\ \E kind \in Kinds, inst \in Instances, columns \in ColumnLists :
          LET fields == RecordFields(inst, columns)
              schema == GetOrDiscoverSchema(sch.cache, kind, fields)
          IN sch' = [phase |-> "fetched",
                     cache |-> CacheSchema(sch.cache, kind, fields),
                     fetches |-> sch.fetches + 1,
                     kind |-> kind, inst |-> inst, columns |-> columns,
                     returned |-> ToArrow(schema, columns)]
    /\ UNCHANGED <<mode, defaultAdapter, closed, result, rowcount,
                   resultIndex, registered, stmt, outcome, origin,
                   raisedKind, calls, tempRegs, reported, areq, lim, plan,
                   rl, last, run, connectionClosed>>

\* SchemaCache.invalidate(adapter_name, table)
SchemaInvalidate ==
    /\ \E kind \in Kinds :
          /\ sch.cache[kind] # {}
          /\ sch' = [sch EXCEPT !.cache[kind] = {}]
    /\ UNCHANGED <<mode, defaultAdapter, closed, result, rowcount,
                   resultIndex, registered, stmt, outcome, origin,
                   raisedKind, calls, tempRegs, reported, areq, lim, plan,
                   rl, last, run, connectionClosed>>

InitSchema ==
    /\ mode = "sync"
    /\ defaultAdapter = "servicenow"
    /\ closed = FALSE
    /\ result = NoResult
    /\ rowcount = -1
    /\ resultIndex = 0
    /\ registered = {}
    /\ last = NoCall
    /\ connectionClosed = FALSE
    /\ run = IdleRun
    /\ stmt = RawStmt
    /\ outcome = "fresh"
    /\ origin = "none"
    /\ raisedKind = "none"
    /\ calls = <<>>
    /\ tempRegs = {}
    /\ reported = -1
    /\ areq = IdleRequest
    /\ lim = IdleLimit
    /\ plan = IdlePlan
    /\ sch = [phase |-> "fresh", cache |-> [kind \in Kinds |-> {}],
              fetches |-> 0, kind |-> "servicenow", inst |-> 1,
              columns |-> Star, returned |-> {}]
    /\ rl = IdleRetry

NextSchema ==
    \/ SchemaFetch
    \/ SchemaInvalidate

SpecSchema == InitSchema /\ [][NextSchema]_vars

\* C16: with a schema cache attached, a fetch with columns absent or ["*"]
\* returns every field of the server's records, whatever fetches preceded
\* it on that table
C16_StarReturnsEveryField ==
    (sch.phase = "fetched" /\ sch.columns = Star)
        => sch.returned = ServerFields(sch.inst)

(***************************************************************************)
(* A ServiceNow page request under rate limiting: the server answers the   *)
(* first requests with 429 and a Retry-After hint and the next with 200;   *)
(* the retry controller (RateLimiter.execute_with_retry) runs do_request   *)
(* again after a 429 until max_retries retries are spent.                  *)
(***************************************************************************)
\* the largest max_retries of an adapter
MaxRetries == 3
\* the most 429 responses in a row
MaxThrottled == 4

\* the Retry-After hints of the server
Hints == {1, 2}

OK200 == [status |-> 200, retry_after |-> 0]
TooMany(hint) == [status |-> 429, retry_after |-> hint]

\* the server's answer to the n-th request of a page fetch
Response(throttled, n) ==
    IF n <= Len(throttled) THEN TooMany(throttled[n]) ELSE OK200

\* do_request loses the hint of the 429
DoRequestHintless(response) ==
    IF response.status = 429
    THEN [raised |-> "RateLimitError", retry_after |-> 0]
    ELSE [raised |-> NoFault, retry_after |-> 0]

\* _fetch_page.do_request: a 429 raises RateLimitError with the Retry-After
\* of the response
DoRequest(response) ==
    IF response.status = 429
    THEN [raised |-> "RateLimitError", retry_after |-> response.retry_after]
    ELSE [raised |-> NoFault, retry_after |-> 0]

\* the retry controller gives up once max_retries retries are spent
Exhausted(retries, max_retries) == retries >= max_retries

\* the request about to be sent, and what do_request makes of its answer
NextAttempt == DoRequest(Response(rl.throttled, rl.requests + 1))

RetryStep(next) ==
    /\ rl' = next
    /\ UNCHANGED <<mode, defaultAdapter, closed, result, rowcount,
                   resultIndex, registered, stmt, outcome, origin,
                   raisedKind, calls, tempRegs, reported, areq, lim, plan,
                   sch, last, run, connectionClosed>>

\* do_request returns the page
PageReturned ==
    /\ rl.phase = "pending"
    /\ NextAttempt.raised = NoFault
    /\ RetryStep([rl EXCEPT !.phase = "done", !.outcome = "returned",
                            !.requests = rl.requests + 1])

\* do_request raises on a 429 and the controller goes to sleep
PageThrottled ==
    /\ rl.phase = "pending"
    /\ NextAttempt.raised = "RateLimitError"
    /\ ~Exhausted(rl.retries, rl.max_retries)
    /\ RetryStep([rl EXCEPT !.phase = "backoff",
                            !.requests = rl.requests + 1])

\* the sleep is over: the controller calls do_request again
RetryAfterBackoff ==
    /\ rl.phase = "backoff"
    /\ RetryStep([rl EXCEPT !.phase = "pending",
                            !.retries = rl.retries + 1])

\* do_request raises on a 429 and no retry is left: _fetch_page re-raises
PageExhausted ==
    /\ rl.phase = "pending"
    /\ NextAttempt.raised = "RateLimitError"
    /\ Exhausted(rl.retries, rl.max_retries)
    /\ RetryStep([rl EXCEPT !.phase = "done", !.outcome = "RateLimitError",
                            !.retry_after = NextAttempt.retry_after,
                            !.requests = rl.requests + 1])

PageFetches ==
    [phase : {"pending"}, max_retries : 0..MaxRetries,
     throttled : UNION {[1..k -> Hints] : k \in 0..MaxThrottled},
     retries : {0}, requests : {0}, outcome : {"none"}, retry_after : {0}]

InitRetry ==
    /\ mode = "sync"
    /\ defaultAdapter = "servicenow"
    /\ closed = FALSE
    /\ result = NoResult
    /\ rowcount = -1
    /\ resultIndex = 0
    /\ registered = {}
    /\ last = NoCall
    /\ connectionClosed = FALSE
    /\ run = IdleRun
    /\ stmt = RawStmt
    /\ outcome = "fresh"
    /\ origin = "none"
    /\ raisedKind = "none"
    /\ calls = <<>>
    /\ tempRegs = {}
    /\ reported = -1
    /\ areq = IdleRequest
    /\ lim = IdleLimit
    /\ plan = IdlePlan
    /\ sch = IdleSchema
    /\ rl \in PageFetches

NextRetry ==
    \/ PageReturned
    \/ PageThrottled
    \/ RetryAfterBackoff
    \/ PageExhausted

SpecRetry == InitRetry /\ [][NextRetry]_vars

\* C17: with max_retries = m, a page fetch that meets k 429 responses in a
\* row and then a 200 succeeds after exactly k + 1 requests when k <= m;
\* when k > m it raises RateLimitError with the Retry-After of the last 429
\* it received, after exactly m + 1 requests
C17_RetriesUntilExhausted ==
    rl.phase = "done" =>
        LET k == Len(rl.throttled)
            m == rl.max_retries
        IN IF k <= m
           THEN rl.outcome = "returned" /\ rl.requests = k + 1
           ELSE /\ rl.outcome = "RateLimitError"
                /\ rl.requests = m + 1
                /\ rl.retry_after = rl.throttled[m + 1]

\* retries were spent on 429s with another hint before the last 429
C17_Witness ==
    /\ rl.phase = "done"
    /\ rl.outcome = "RateLimitError"
    /\ rl.max_retries >= 1
    /\ Len(rl.throttled) > rl.max_retries + 1
    /\ rl.throttled[1] # rl.throttled[rl.max_retries + 1]

(***************************************************************************)
(* The cursor's life: execute, executemany, the fetch methods and close,   *)
(* in any order, on a small workload.  WaveQLCursor has all of them,       *)
(* AsyncWaveQLCursor has execute, fetchone, fetchall and close.            *)
(***************************************************************************)
\* the largest size passed to fetchmany
MaxSize == 2
\* the most parameter sets passed to executemany
MaxBatch == 2
\* WaveQLCursor.__init__: self._arraysize
Arraysize == 100

\* len(self._result)
RowCount(res) == Len(res.rows)

\* fetchone hands out a row
HasNext(res, index) == ~res.none /\ index < RowCount(res)

RECURSIVE FetchManyRows(_, _, _)
\* fetchmany: the loop of fetchone calls, up to size rows from index on
FetchManyRows(res, index, size) ==
    IF size <= 0 \/ ~HasNext(res, index) THEN <<>>
    ELSE <<res.rows[index + 1]>> \o FetchManyRows(res, index + 1, size - 1)

\* fetchall: self._result.slice(self._result_index)
Remaining(res, index) == SubSeq(res.rows, index + 1, RowCount(res))

\* fetchall leaves the index where it was
IndexKept(res, index) == index

\* fetchall: self._result_index = len(self._result)
IndexAtEnd(res, index) == RowCount(res)

\* a fetch method hands back value (or None / StopIteration) and moves the
\* index
Handed(call, value, none, index) ==
    /\ last' = [call |-> call, from |-> resultIndex, value |-> value,
                none |-> none, handed |-> last.handed \o value]
    /\ resultIndex' = index
    /\ UNCHANGED <<mode, defaultAdapter, closed, result, rowcount,
                   registered, stmt, outcome, origin, raisedKind, calls,
                   tempRegs, reported, areq, lim, plan, sch, rl, run,
                   connectionClosed>>

\* fetchone
FetchOne ==
    IF HasNext(result, resultIndex)
    THEN Handed("fetchone", <<result.rows[resultIndex + 1]>>, FALSE,
                resultIndex + 1)
    ELSE Handed("fetchone", <<>>, TRUE, resultIndex)

\* fetchmany(size), fetchmany() with size = arraysize
FetchMany ==
    /\ mode = "sync"
    /\ \E size \in 0..MaxSize \cup {Arraysize} :
          LET rows == FetchManyRows(result, resultIndex, size)
          IN Handed("fetchmany", rows, FALSE, resultIndex + Len(rows))

\* fetchall
FetchAll ==
    IF result.none
    THEN Handed("fetchall", <<>>, FALSE, resultIndex)
    ELSE Handed("fetchall", Remaining(result, resultIndex), FALSE,
                IndexAtEnd(result, resultIndex))

\* __next__: StopIteration when fetchone returns None
NextRow ==
    /\ mode = "sync"
    /\ IF HasNext(result, resultIndex)
       THEN Handed("next", <<result.rows[resultIndex + 1]>>, FALSE,
                   resultIndex + 1)
       ELSE Handed("next", <<>>, TRUE, resultIndex)

\* the statements of the workload: three rows, one row
LifeSelects ==
    {Statement("SELECT", T_issue, <<>>, NoWhere, FALSE),
     Statement("SELECT", T_data, <<>>, NoWhere, TRUE)}

LifeFaults == {NoFault, "AdapterError"}

LifeExecute == Pushdown(LifeSelects, LifeFaults)

\* executemany on a closed cursor
ExecuteManyClosed ==
    /\ mode = "sync"
    /\ closed
    /\ \E st \in LifeSelects \cup MutationStmts :
          Settle(st, Raised("QueryError", "cursor", "QueryError", rowcount,
                            <<>>, registered, {}), "executemany")

\* executemany of a mutation through an adapter: adapter.execute_batch,
\* which is BaseAdapter's for every adapter and raises NotImplementedError
ExecuteManyBatch ==
    /\ mode = "sync"
    /\ ~closed
    /\ \E st \in MutationStmts :
          /\ Routed(st) # "none"
          /\ Settle(st, Raised(NotImpl, "adapter", NotImpl, rowcount,
                               <<"execute_batch">>, registered, {}),
                    "executemany")

RECURSIVE Repeat(_, _)
Repeat(cs, n) == IF n = 0 THEN <<>> ELSE cs \o Repeat(cs, n - 1)

\* executemany of any other statement: one execute per parameter set, the
\* positive rowcounts added up; an execute that raises ends the loop
ExecuteManyEach ==
    /\ mode = "sync"
    /\ ~closed
    /\ \E st \in LifeSelects, f \in LifeFaults, n \in 0..MaxBatch :
          LET r == ExecViaAdapter(st, Routed(st), mode, rowcount, registered,
                                  f, NoFault, "ok", 1)
          IN /\ Routed(st) # "none"
             /\ f # NoFault \/ ~FetchUnsupported(Routed(st), mode, st.agg)
             /\ n = 0 => f = NoFault
             /\ IF n = 0
                THEN \* no execute at all: only self._rowcount = total
                     /\ rowcount' = 0
                     /\ last' = [NoCall EXCEPT !.call = "executemany",
                                               !.from = resultIndex,
                                               !.handed = last.handed]
                     /\ UNCHANGED <<mode, defaultAdapter, closed, result,
                                    resultIndex, registered, stmt, outcome,
                                    origin, raisedKind, calls, tempRegs,
                                    reported, areq, lim, plan, sch, rl, run,
                                    connectionClosed>>
                ELSE IF r.outcome # "returned"
                THEN Settle(st, r, "executemany")
                ELSE Settle(st,
                            [r EXCEPT !.rowcount = n * Max2(r.rowcount, 0),
                                      !.calls = Repeat(r.calls, n)],
                            "executemany")

NextLife ==
    \/ LifeExecute
    \/ ExecuteMutation
    \/ ExecuteClosed
    \/ ExecuteManyClosed
    \/ ExecuteManyBatch
    \/ ExecuteManyEach
    \/ FetchOne
    \/ FetchMany
    \/ FetchAll
    \/ NextRow
    \/ Close

SpecLife == Init /\ [][NextLife]_vars

(***************************************************************************)
(* Properties of the cursor's life                                         *)
(***************************************************************************)
\* the last call was an execute or executemany
Executed == last.call \in {"execute", "executemany"}

\* the call was refused before anything was parsed, fetched or run
RefusedAsClosed ==
    /\ outcome = "QueryError"
    /\ origin = "cursor"
    /\ calls = <<>>
    /\ tempRegs = {}

\* C18: once close has been called the cursor stays closed in every later
\* state; an execute or executemany on it raises QueryError and calls no
\* adapter and not the local engine; a repeated close raises nothing and
\* changes nothing
C18_ClosedForGood ==
    /\ [](closed /\ Executed => RefusedAsClosed)
    /\ [][closed =>
            /\ closed'
            /\ result' = NoResult
            /\ registered' = registered
            /\ last'.call = "close" =>
                  UNCHANGED <<rowcount, stmt, outcome, origin, calls>>]_vars

\* executemany was refused on a closed cursor
C18_Witness ==
    /\ closed
    /\ last.call = "executemany"
    /\ RefusedAsClosed
    /\ stmt.op \in MutationOps

\* the last execute raised
ExecuteRaised == outcome \notin {"fresh", "returned"}

\* C19: when execute raises, the cursor holds no result afterwards: no row
\* of this statement or of an earlier one can be fetched
C19_NoRowsAfterFailedExecute ==
    ExecuteRaised => ~HasNext(result, resultIndex)

FetchCalls == {"fetchone", "fetchmany", "fetchall", "next"}

\* C20: while the cursor holds a batch, whatever the order of fetchone,
\* fetchmany, fetchall and iteration, the rows handed out since the batch
\* arrived are its first rows in batch order, each once, every call hands
\* back the rows next in line, the index stays between 0 and the row count
\* and does not decrease, and at the end of the batch fetchone returns
\* None, iteration stops and fetchmany and fetchall return empty lists
C20_RowsHandedOutOnceInOrder ==
    ~result.none =>
        /\ resultIndex \in 0..RowCount(result)
        /\ last.from <= resultIndex
        /\ last.handed = SubSeq(result.rows, 1, resultIndex)
        /\ last.call \in FetchCalls =>
              /\ last.value = SubSeq(result.rows, last.from + 1, resultIndex)
              /\ last.none <=> /\ last.call \in {"fetchone", "next"}
                               /\ last.from = RowCount(result)
              /\ last.from = RowCount(result) => last.value = <<>>

\* fetchall handed out the rows another method had left
C20_Witness ==
    /\ ~result.none
    /\ last.call = "fetchall"
    /\ last.from = 1
    /\ Len(last.value) = 2
    /\ Len(last.handed) = 3
    /\ resultIndex = RowCount(result)

\* ------------------------------------------------------------------
\* Callers that run execute at the same time.  WaveQLCursor.execute is
\* called from threads, AsyncWaveQLCursor.execute from tasks of one event
\* loop; neither cursor nor connection takes a lock, so the steps of two
\* callers interleave wherever a thread can be preempted (sync) or a task
\* is suspended in an await (async).
\* ------------------------------------------------------------------

MaxCallers == 2

Callers == 1..MaxCallers
Cursors == {1, 2}
RunKinds == {"pushdown", "fallback", "direct"}

\* the positions of a caller inside execute
InEngine  == {"register", "execute", "unregister", "direct"}
AtRest    == {"idle", "done", "raised"}

\* every caller on cursor 1, or caller 1 on cursor 1 and the rest on cursor 2
CursorChoices ==
    {[t \in Callers |-> 1], [t \in Callers |-> IF t = 1 THEN 1 ELSE 2]}

InProgress(t) == run.pc[t] \notin AtRest
InEngineCall(t) == run.pc[t] \in InEngine
Quiet == \A t \in Callers : ~InProgress(t)

\* execute up to its first call out: the closed check, parse and routing
\* run without a suspension; the adapter's fetch or the engine's execute
\* is then in progress
Begin(t) ==
    /\ run.phase = "running"
    /\ run.pc[t] = "idle"
    /\ LET c == run.cursorOf[t]
       IN run' = [run EXCEPT !.pc[t] =
                     IF run.closed[c] THEN "raised"
                     ELSE IF run.kind[t] = "direct" THEN "direct"
                     ELSE "adapter"]
    /\ UNCHANGED <<mode, defaultAdapter, closed, result, rowcount,
                   resultIndex, registered, stmt, outcome, origin,
                   raisedKind, calls, tempRegs, reported, areq, lim, plan,
                   sch, rl, last, connectionClosed>>

\* the cursor's fields once caller t's statement has written itself in
Assigned(r, t) ==
    [r EXCEPT !.result[r.cursorOf[t]] = t, !.pc[t] = "done"]

\* the adapter's fetch returns.  Pushdown: _rowcount is written and the
\* batch returned; a task runs on to the assignment of _result without a
\* suspension, a thread can be preempted before it.  Fallback: the raw
\* batch is in hand and the engine's register is called (from a worker
\* thread in the async cursor).
AdapterReturns(t) ==
    /\ run.phase = "running"
    /\ run.pc[t] = "adapter"
    /\ LET c == run.cursorOf[t]
           counted == [run EXCEPT !.rowcount[c] = t]
       IN run' = IF run.kind[t] = "fallback"
                 THEN [run EXCEPT !.pc[t] = "register"]
                 ELSE IF mode = "async" THEN Assigned(counted, t)
                 ELSE [counted EXCEPT !.pc[t] = "assign"]
    /\ UNCHANGED <<mode, defaultAdapter, closed, result, rowcount,
                   resultIndex, registered, stmt, outcome, origin,
                   raisedKind, calls, tempRegs, reported, areq, lim, plan,
                   sch, rl, last, connectionClosed>>

\* one call into the engine returns and the code runs to its next call:
\* register, then execute, then (_rowcount written) unregister, then back
\* in execute with the result in hand
EngineReturns(t) ==
    /\ run.phase = "running"
    /\ run.pc[t] \in {"register", "execute", "unregister"}
    /\ LET c == run.cursorOf[t]
       IN run' = CASE run.pc[t] = "register" ->
                        [run EXCEPT !.pc[t] = "execute"]
                   [] run.pc[t] = "execute" ->
                        [run EXCEPT !.pc[t] = "unregister",
                                    !.rowcount[c] = t]
                   [] OTHER -> [run EXCEPT !.pc[t] = "assign"]
    /\ UNCHANGED <<mode, defaultAdapter, closed, result, rowcount,
                   resultIndex, registered, stmt, outcome, origin,
                   raisedKind, calls, tempRegs, reported, areq, lim, plan,
                   sch, rl, last, connectionClosed>>

\* _execute_direct returns: the engine's execute is over, _rowcount is
\* not written
DirectReturns(t) ==
    /\ run.phase = "running"
    /\ run.pc[t] = "direct"
    /\ run' = [run EXCEPT !.pc[t] = "assign"]
    /\ UNCHANGED <<mode, defaultAdapter, closed, result, rowcount,
                   resultIndex, registered, stmt, outcome, origin,
                   raisedKind, calls, tempRegs, reported, areq, lim, plan,
                   sch, rl, last, connectionClosed>>

\* self._result = <what the branch returned>; _result_index = 0
Assign(t) ==
    /\ run.phase = "running"
    /\ run.pc[t] = "assign"
    /\ run' = Assigned(run, t)
    /\ UNCHANGED <<mode, defaultAdapter, closed, result, rowcount,
                   resultIndex, registered, stmt, outcome, origin,
                   raisedKind, calls, tempRegs, reported, areq, lim, plan,
                   sch, rl, last, connectionClosed>>

\* close() of cursor c, by any caller, whatever the others are doing
CloseCursor(c) ==
    /\ run.phase = "running"
    /\ ~run.closed[c]
    /\ run' = [run EXCEPT !.closed[c] = TRUE, !.result[c] = 0]
    /\ UNCHANGED <<mode, defaultAdapter, closed, result, rowcount,
                   resultIndex, registered, stmt, outcome, origin,
                   raisedKind, calls, tempRegs, reported, areq, lim, plan,
                   sch, rl, last, connectionClosed>>

InitConc ==
    /\ mode \in {"sync", "async"}
    /\ defaultAdapter = "servicenow"
    /\ closed = FALSE
    /\ result = NoResult
    /\ rowcount = -1
    /\ resultIndex = 0
    /\ registered = {}
    /\ last = NoCall
    /\ connectionClosed = FALSE
    /\ stmt = RawStmt
    /\ outcome = "fresh"
    /\ origin = "none"
    /\ raisedKind = "none"
    /\ calls = <<>>
    /\ tempRegs = {}
    /\ reported = -1
    /\ areq = IdleRequest
    /\ lim = IdleLimit
    /\ plan = IdlePlan
    /\ sch = IdleSchema
    /\ rl = IdleRetry
    /\ \E cs \in CursorChoices, ks \in [Callers -> RunKinds] :
          run = [phase    |-> "running",
                 cursorOf |-> cs,
                 kind     |-> ks,
                 pc       |-> [t \in Callers |-> "idle"],
                 closed   |-> [c \in Cursors |-> FALSE],
                 result   |-> [c \in Cursors |-> 0],
                 rowcount |-> [c \in Cursors |-> 0]]

NextConc ==
    \/ \E t \in Callers : Begin(t)
    \/ \E t \in Callers : AdapterReturns(t)
    \/ \E t \in Callers : EngineReturns(t)
    \/ \E t \in Callers : DirectReturns(t)
    \/ \E t \in Callers : Assign(t)
    \/ \E c \in Cursors : CloseCursor(c)

SpecConc == InitConc /\ [][NextConc]_vars

Running == run.phase = "running"

\* C21: on one cursor no execute begins while another execute on that
\* cursor is in progress, and once every execute is over the cursor's
\* result and rowcount come from the same statement
C21_OneExecuteAtATime ==
    Running =>
        /\ \A t, u \in Callers :
              t # u /\ run.cursorOf[t] = run.cursorOf[u] =>
                  ~(InProgress(t) /\ InProgress(u))
        /\ Quiet => \A c \in Cursors :
              run.result[c] # 0 => run.rowcount[c] = run.result[c]

\* C22: of the callers whose cursors share the connection, at most one is
\* inside a call into the connection's engine
C22_OneEngineCallAtATime ==
    Running => Cardinality({t \in Callers : InEngineCall(t)}) <= 1

\* C23: once a close of an async cursor and the execute it interrupted
\* are both over, the cursor is closed and holds no result
C23_ClosedHoldsNoResult ==
    Running /\ mode = "async" /\ Quiet =>
        \A c \in Cursors : run.closed[c] => run.result[c] = 0

(***************************************************************************)
(* ServiceNow schema discovery on a table that may be empty: fetch and     *)
(* get_schema, blocking and async.  Every HTTP request is one step; the    *)
(* server answers it with some number of records.                          *)
(***************************************************************************)
\* the records one answer carries at most
MaxRecords == 2
\* the nested calls the interpreter allows before it raises RecursionError
MaxDepth == 3

Entries == {"fetch", "get_schema"}
CachedSchemas == {{}, {"a"}, {"a", "b"}}

\* the keys of the first record of an answer
SampleKeys == {"a", "b"}

\* fetch / fetch_async, get_schema / get_schema_async up to the HTTP
\* request: get_schema returns a cached schema without a request, fetch
\* requests its page whatever the cache holds
CallDiscover ==
    /\ sch.phase = "discover"
    /\ sch.pc = "start"
    /\ sch' = IF sch.entry = "get_schema" /\ sch.cache # {}
              THEN [sch EXCEPT !.pc = "done", !.schema = sch.cache,
                               !.returned = sch.cache]
              ELSE [sch EXCEPT !.pc = "request"]
    /\ UNCHANGED <<mode, defaultAdapter, closed, result, rowcount,
                   resultIndex, registered, stmt, outcome, origin,
                   raisedKind, calls, tempRegs, reported, areq, lim, plan,
                   rl, last, run, connectionClosed>>

\* _get_or_discover_schema(table, records) with n records in hand: the
\* cached schema, else the keys of the first record (and they are cached),
\* else no columns
DiscoverSync(s, n) ==
    IF s.cache # {} THEN [s EXCEPT !.pc = "done", !.schema = s.cache]
    ELSE IF n > 0 THEN [s EXCEPT !.pc = "done", !.schema = SampleKeys,
                                 !.cache = SampleKeys]
    ELSE [s EXCEPT !.pc = "done", !.schema = {}]

\* _get_or_discover_schema_async(table, records): as the blocking one, but
\* with no records it awaits get_schema_async(table), which finds no cached
\* schema, requests one record and calls _get_or_discover_schema_async
\* again; every round nests two more calls
DiscoverAsync(s, n) ==
    IF s.cache # {} \/ n > 0 THEN DiscoverSync(s, n)
    ELSE IF s.depth < MaxDepth
         THEN [s EXCEPT !.pc = "request", !.depth = s.depth + 1]
         ELSE [s EXCEPT !.pc = "raised"]

\* what the call hands back: get_schema the schema; fetch the table of
\* _to_arrow, which with no records has every column of the schema and
\* with records the selected ones
HandedBack(s) ==
    IF s.pc # "done" THEN s
    ELSE IF s.entry = "get_schema" \/ s.answers[1] = 0
         THEN [s EXCEPT !.returned = s.schema]
         ELSE [s EXCEPT !.returned = ToArrow(s.schema, s.columns)]

\* _fetch_page / _fetch_page_async: the server answers the request with n
\* records, and the schema is looked up or discovered from them
PageAnswers ==
    /\ sch.phase = "discover"
    /\ sch.pc = "request"
    /\ \E n \in 0..MaxRecords :
          LET answered == [sch EXCEPT !.answers = Append(sch.answers, n)]
          IN sch' = IF mode = "sync"
                    THEN HandedBack(DiscoverSync(answered, n))
                    ELSE HandedBack(DiscoverAsync(answered, n))
    /\ UNCHANGED <<mode, defaultAdapter, closed, result, rowcount,
                   resultIndex, registered, stmt, outcome, origin,
                   raisedKind, calls, tempRegs, reported, areq, lim, plan,
                   rl, last, run, connectionClosed>>

InitDiscover ==
    /\ mode \in {"sync", "async"}
    /\ defaultAdapter = "servicenow"
    /\ closed = FALSE
    /\ result = NoResult
    /\ rowcount = -1
    /\ resultIndex = 0
    /\ registered = {}
    /\ last = NoCall
    /\ connectionClosed = FALSE
    /\ run = IdleRun
    /\ stmt = RawStmt
    /\ outcome = "fresh"
    /\ origin = "none"
    /\ raisedKind = "none"
    /\ calls = <<>>
    /\ tempRegs = {}
    /\ reported = -1
    /\ areq = IdleRequest
    /\ lim = IdleLimit
    /\ plan = IdlePlan
    /\ \E entry \in Entries, cached \in CachedSchemas,
          columns \in ColumnLists :
          sch = [phase |-> "discover", entry |-> entry, cache |-> cached,
                 had |-> cached, columns |-> columns, pc |-> "start",
                 depth |-> 0, answers |-> <<>>, schema |-> {},
                 returned |-> {}]
    /\ rl = IdleRetry

NextDiscover ==
    \/ CallDiscover
    \/ PageAnswers

SpecDiscover == InitDiscover /\ [][NextDiscover]_vars

\* the call is over, the table had no cached schema and the server
\* answered every request with zero records
EmptyUncached ==
    /\ sch.phase = "discover"
    /\ sch.pc \in {"done", "raised"}
    /\ sch.had = {}
    /\ \A i \in 1..Len(sch.answers) : sch.answers[i] = 0

\* C24: on a table without cached schema whose server returns zero
\* records, fetch_async and get_schema_async return, after the one request
\* the blocking fetch and get_schema send, the empty schema they return
C24_EmptyTableDiscoveryTerminates ==
    EmptyUncached =>
        /\ sch.pc = "done"
        /\ sch.schema = {}
        /\ sch.returned = {}
        /\ Len(sch.answers) = 1

\* C25: executemany of an INSERT, UPDATE or DELETE routed to an adapter
\* that supports the operation returns, having called the adapter's
\* method for that operation once per parameter set and nothing else, and
\* leaves the sum of the affected rows, a count >= 0, in rowcount
C25_ExecuteManyMutatesPerParameterSet ==
    ( /\ last.call = "executemany"
      /\ origin # "cursor"
      /\ stmt.op \in MutationOps
      /\ Routed(stmt) # "none"
      /\ ~MutationUnsupported(Routed(stmt), stmt.op) )
        => /\ outcome = "returned"
           /\ rowcount >= 0
           /\ \A i \in 1..Len(calls) : calls[i] = MethodOf(stmt.op)

\* C26: after an execute that returned, rowcount describes that statement:
\* the count the adapter reported, >= 0, for a mutation through an
\* adapter; the number of result rows for a SELECT served by an adapter;
\* -1 for a virtual join
C26_RowcountDescribesStatement ==
    (last.call = "execute" /\ outcome = "returned") =>
        /\ (stmt.op \in MutationOps /\ Routed(stmt) # "none") =>
              rowcount = reported /\ rowcount >= 0
        /\ (stmt.op = "SELECT" /\ stmt.joins # <<>>) => rowcount = -1
        /\ (stmt.op = "SELECT" /\ stmt.joins = <<>> /\ Routed(stmt) # "none")
              => ~result.none /\ rowcount = RowCount(result)

\* C27: after the fallback (the first fetch raised NotImplementedError and
\* the second returned), the result of execute is the local engine's
\* evaluation of the statement over the batch fetched with the predicates
\* pushed down, whatever that batch holds, an empty batch included
C27_FallbackEqualsLocalEvaluation ==
    (outcome = "returned" /\ calls = <<"fetch", "fetch">>) =>
        result = Batch(LocalSelect(stmt.where, stmt.agg,
                                   AdapterFetch(stmt.table,
                                                ParseCondition(stmt.where),
                                                FALSE)))

(***************************************************************************)
(* The rewrite of the fallback branch: raw_sql with the first FROM <table> *)
(* replaced by FROM <temp name>.  SQL text is a sequence of characters;    *)
(* the pattern FROM\s+<re.escape(table)>\b is matched as re matches it,    *)
(* with IGNORECASE.                                                        *)
(***************************************************************************)
\* the most whitespace characters between FROM and the table
MaxGap == 2

Quote   == "\""
Newline == "\n"

IsSpace(c) == c \in {Blank, Newline}

\* \w: letters, digits and the underscore
IsWordChar(c) == c \notin {Blank, Newline, Quote, "(", ")", "*", "=", "."}

\* the letters of the texts at hand that have an upper case of their own
Upper(c) ==
    CASE c = "f" -> "F"
      [] c = "r" -> "R"
      [] c = "o" -> "O"
      [] c = "m" -> "M"
      [] c = "a" -> "A"
      [] c = "s" -> "S"
      [] OTHER   -> c

\* the literal lit stands in text at position k, case ignored
LiteralAt(text, k, lit) ==
    /\ k + Len(lit) - 1 <= Len(text)
    /\ \A j \in 1..Len(lit) : Upper(text[k + j - 1]) = Upper(lit[j])

RECURSIVE SpacesFrom(_, _)
\* \s+ : the whitespace characters of text from position k on
SpacesFrom(text, k) ==
    IF k <= Len(text) /\ IsSpace(text[k])
    THEN 1 + SpacesFrom(text, k + 1)
    ELSE 0

\* \b after the table: a word character on exactly one side
BoundaryAt(text, e) ==
    IsWordChar(text[e - 1]) # (e <= Len(text) /\ IsWordChar(text[e]))

\* the position after a match of the pattern that starts at k; 0: no match
MatchEnd(text, k, table) ==
    LET n == SpacesFrom(text, k + 4)
        e == k + 4 + n + Len(table)
    IN IF /\ LiteralAt(text, k, <<"F", "R", "O", "M">>)
          /\ n >= 1
          /\ LiteralAt(text, k + 4 + n, table)
          /\ BoundaryAt(text, e)
       THEN e ELSE 0

\* pattern.sub("FROM <temp>", raw_sql, count=1)
Sub(text, table, temp) ==
    LET starts == {k \in 1..Len(text) : MatchEnd(text, k, table) # 0}
    IN IF starts = {} THEN text
       ELSE LET k == CHOOSE k \in starts : \A j \in starts : k <= j
            IN SubSeq(text, 1, k - 1)
               \o <<"F", "R", "O", "M", Blank>> \o temp
               \o SubSeq(text, MatchEnd(text, k, table), Len(text))

\* the FROM clauses of the statements: the table t, plain, with an alias
\* (with and without AS) and quoted
FromForms == {"plain", "as_alias", "bare_alias", "quoted"}

\* the FROM clause as the statement spells it
FromText(form) ==
    CASE form = "plain"      -> <<"t">>
      [] form = "as_alias"   -> <<"t", Blank, "A", "S", Blank, "i">>
      [] form = "bare_alias" -> <<"t", Blank, "i">>
      [] OTHER               -> <<Quote, "t", Quote>>

\* query_info.table: table.sql() of the statement's first table, the
\* alias spelled with AS and a quoted identifier in its quotes
TableSql(form) ==
    CASE form = "plain"  -> <<"t">>
      [] form = "quoted" -> <<Quote, "t", Quote>>
      [] OTHER           -> <<"t", Blank, "A", "S", Blank, "i">>

FromKeywords == {<<"F", "R", "O", "M">>, <<"f", "r", "o", "m">>}
Gaps == {Blank, Newline}
\* aggregates, which Jira's fetch answers with NotImplementedError
SelectLists == {<<"S", "U", "M", "(", "c", ")">>,
                <<"C", "O", "U", "N", "T", "(", "*", ")">>}
Tails == {<<>>, <<Blank, "W", "H", "E", "R", "E", Blank, "c", "=", "1">>}

\* temp_name = "t_" + uuid4().hex
TempText == <<"t", "_", "9">>

RawSql(list, kw, gap, n, form, tail) ==
    <<"S", "E", "L", "E", "C", "T", Blank>> \o list \o <<Blank>> \o kw
    \o [i \in 1..n |-> gap] \o FromText(form) \o tail

\* the rewrite in the try block of the fallback branch
RewriteFallback ==
    /\ plan.phase = "rewrite"
    /\ plan' = [plan EXCEPT !.phase = "rewritten",
                            !.sql = Sub(plan.raw_sql, plan.table, TempText)]
    /\ UNCHANGED <<mode, defaultAdapter, closed, result, rowcount,
                   resultIndex, registered, stmt, outcome, origin,
                   raisedKind, calls, tempRegs, reported, areq, lim, sch,
                   rl, last, run, connectionClosed>>

InitRewrite ==
    /\ mode = "sync"
    /\ defaultAdapter = "servicenow"
    /\ closed = FALSE
    /\ result = NoResult
    /\ rowcount = -1
    /\ resultIndex = 0
    /\ registered = {}
    /\ last = NoCall
    /\ connectionClosed = FALSE
    /\ run = IdleRun
    /\ stmt = RawStmt
    /\ outcome = "fresh"
    /\ origin = "none"
    /\ raisedKind = "none"
    /\ calls = <<>>
    /\ tempRegs = {}
    /\ reported = -1
    /\ areq = IdleRequest
    /\ lim = IdleLimit
    /\ \E list \in SelectLists, kw \in FromKeywords, gap \in Gaps,
          n \in 1..MaxGap, form \in FromForms, tail \in Tails :
          plan = [phase |-> "rewrite", form |-> form,
                  raw_sql |-> RawSql(list, kw, gap, n, form, tail),
                  table |-> TableSql(form), sql |-> <<>>]
    /\ sch = IdleSchema
    /\ rl = IdleRetry

NextRewrite == RewriteFallback

SpecRewrite == InitRewrite /\ [][NextRewrite]_vars

\* temp follows a FROM and its whitespace somewhere in the text, with
\* nothing of a longer name after it
ReadsFrom(text, temp) ==
    \E k \in 1..Len(text) :
        LET n == SpacesFrom(text, k + 4)
            e == k + 4 + n + Len(temp)
        IN /\ LiteralAt(text, k, <<"F", "R", "O", "M">>)
           /\ n >= 1
           /\ LiteralAt(text, k + 4 + n, temp)
           /\ e <= Len(text) => ~IsWordChar(text[e])

\* C28: the SQL the fallback branch hands to the local engine reads FROM
\* the temp name, whether the statement's FROM clause names the table
\* plainly, gives it an alias or quotes it
C28_RewriteTakesEffect ==
    plan.phase = "rewritten" => ReadsFrom(plan.sql, TempText)

(***************************************************************************)
(* Statements executed as text, EXPLAIN included, on a cursor whose        *)
(* connection may have been closed since the cursor was obtained.          *)
(***************************************************************************)
TextKeywords == {"SELECT", "INSERT", "UPDATE", "DELETE"}

\* connection.close(): the engine and the schema cache are closed and
\* _closed is set; cursors and adapters are left as they are
ConnectionClose ==
    /\ ~connectionClosed
    /\ connectionClosed' = TRUE
    /\ UNCHANGED <<mode, defaultAdapter, closed, result, rowcount,
                   resultIndex, registered, stmt, outcome, origin,
                   raisedKind, calls, tempRegs, reported, areq, lim, plan,
                   sch, rl, last, run>>

\* the call into the engine that fails: every call once the connection
\* has closed it
EngineAfter(isClosed, call) == IF isClosed THEN call ELSE "ok"

\* execute(text): the planner's QueryInfo, then the branch its operation
\* and table select; is_explain is read by no branch
ExecuteText ==
    /\ ~closed
    /\ \E explains \in 0..MaxExplain, keyword \in TextKeywords,
          t \in Tables, f \in {NoFault, "AdapterError"}, count \in 0..1 :
          LET info == Parse(SqlText(0, explains, keyword, 0), NoWhere)
              st   == Statement(info.operation, t, <<>>, NoWhere, FALSE)
              r    == IF Routed(st) = "none"
                      THEN ExecDirect(st, mode, rowcount, registered,
                                      EngineAfter(connectionClosed,
                                                  "execute"))
                      ELSE ExecViaAdapter(st, Routed(st), mode, rowcount,
                                          registered, f, NoFault,
                                          EngineAfter(connectionClosed,
                                                      "register"),
                                          count)
          IN /\ f # NoFault => count = 0 /\ Routed(st) # "none"
             /\ Routed(st) = "none" => count = 0
             /\ SettleFields(st, r, "execute")
             /\ plan' = [phase |-> "executed", info |-> info,
                         afterClose |-> connectionClosed]
    /\ UNCHANGED <<mode, defaultAdapter, closed, areq, lim, sch, rl, run,
                   connectionClosed>>

NextConn ==
    \/ ExecuteText
    \/ ConnectionClose

SpecConn == Init /\ [][NextConn]_vars

MutationMethods == {"insert", "update", "delete"}

\* C29: the execute of EXPLAIN <INSERT | UPDATE | DELETE ...>, which the
\* planner flags with is_explain, calls no insert, update or delete of the
\* adapter
C29_ExplainMutatesNothing ==
    ( /\ plan.phase = "executed"
      /\ plan.info.is_explain
      /\ plan.info.operation \in MutationOps )
        => \A i \in 1..Len(calls) : calls[i] \notin MutationMethods

\* C30: an execute after connection.close(), on a cursor obtained before
\* it, raises and calls no method of an adapter
C30_ClosedConnectionReachesNoAdapter ==
    (plan.phase = "executed" /\ plan.afterClose)
        => outcome # "returned" /\ calls = <<>>

====
